---- MODULE Spec2Model ----
(***************************************************************************)
(* Model of the indexing core of KayfApp/tracer.                           *)
(*                                                                         *)
(*   SpecFetch    ProviderQueue (the fetch scheduler), its worker tasks,   *)
(*                ProviderInstanceRegistry add/remove and a clock.         *)
(*   SpecIndex    FaissIndex shards of one instance, the IndexingQueue     *)
(*                jobs, the ClusteringQueue worker and a searching client. *)
(*   SpecCoalesce the per-document reduction of IndexingQueue              *)
(*                ._apply_operations against direct application.           *)
(*   SpecShard    threads calling load, insert, remove, cluster and        *)
(*                release on one FaissIndex.                               *)
(*                                                                         *)
(* Times are integers; one clock unit stands for 60 s, the configured      *)
(* FETCHING_TIME.                                                          *)
(***************************************************************************)
EXTENDS Integers, Sequences, FiniteSets, Bags, TLC

\* ------------------------------------------------------------------ bounds
NumInstances == 3     \* provider instances ever created
MaxTime == 1          \* clock ticks
MaxRemovals == 1      \* instances removed from the registry
NumDocs == 2          \* document ids
NumContents == 2      \* distinct contents of a document
MaxSeq == 4           \* operations submitted on one document
NumShards == 2        \* shard files of the instance
MaxJobs == 1          \* IndexingQueue jobs
MaxPushes == 3        \* operations pushed to the IndexingQueue
NumThreads == 2       \* threads calling one FaissIndex
MaxCalls == 4         \* calls those threads make
MaxAmount == 2        \* largest amount of memory of one request
MaxMemCalls == 4      \* calls of the MemoryManager
MaxSize == 10         \* largest shard size asked about
MaxTokens == 2        \* Context objects generated
MaxFiles == 2         \* shard files in the index directory of an added instance
MaxVectors == 2       \* vectors in one such file
MaxTableCalls == 3    \* calls of request_index_creation and mark_index_as_full
NumCallers == 2       \* threads calling the ProviderInstanceRegistry
NumObservers == 2     \* observers attached to it
MaxRegistryCalls == 3 \* add and remove calls those threads make
MaxLoopPushes == 3    \* operations pushed while the IndexingQueue loop runs
NumRunners == 2       \* pool threads that call run() of one provider
MaxRuns == 3          \* run() calls made on it
NumContextIds == 2    \* values that secrets.randbits can return
MaxLifeCalls == 6     \* calls made on the ContextManager and one FaissIndex

\* ------------------------------------------------------- program constants
FETCHING_TIME == 1
FETCHING_THREADS == 2
\* Sizes are counted in bytes and one byte stands for the MiB of env.py: a
\* vector of EMBEDDING_DIMS floats takes 4 * EMBEDDING_DIMS of them and a
\* flat shard of MAX_INDEX_SIZE holds two vectors.
EMBEDDING_DIMS == 1
MAX_INDEX_SIZE == 8
\* the budgets of the MemoryManager, in units of 1024 MiB
MAX_MEMORY == 4
MAX_INDEXING_MEMORY == 1
MAX_CLUSTERING_MEMORY == 1

Instances == 1..NumInstances
Docs == 1..NumDocs
Contents == 1..NumContents
Shards == 1..NumShards
Jobs == 1..MaxJobs
\* the threads that take shard locks: the executor jobs of IndexingQueue, the
\* ClusteringQueue thread and a caller of load / search / release
ClusterThread == MaxJobs + 1
ClientThread == MaxJobs + 2
Threads == 1..NumThreads
Free == 0
\* datetime.min made timezone aware: older than every clock value by more
\* than FETCHING_TIME
MinTime == 0 - FETCHING_TIME
\* the naive datetime.min of "last_fetched or datetime.min"
NaiveMin == MinTime - 1
\* last_fetched of an instance without a database row (None)
NoTime == MinTime - 2
None == 0

VARIABLES
    \* ---- SpecFetch
    now,                 \* the clock (datetime.now)
    nextId,              \* next primary key of the provider_instances table
    registry,            \* ProviderInstanceRegistry._registry (its keys)
    lastFetched,         \* ProviderInstance.last_fetched per database row
    pendingEvent,        \* registry event not yet delivered to ProviderQueue
    provider_instances,  \* ProviderQueue._provider_instances (SortedList)
    active_tasks,        \* ProviderQueue._active_tasks
    schedPc,             \* position of ProviderQueue.run
    first_entry,         \* local of run: the entry returned by _safe_peek
    popped,              \* the entry removed by the pop(0) of a dispatch
    wakeAt,              \* end of the timeout of the FETCHING_TIME wait
    tasks,               \* task_wrapper executions in the executor
    lastFailStart,       \* history: start of the latest failed run
    removedDelivered,    \* history: removed instances, REMOVE delivered
    \* ---- SpecCoalesce
    operations,          \* the operations drained for one document id
    \* ---- SpecIndex: one provider instance and its vector shards
    disk,                \* per shard: the index file and its .metadata sidecar
    shard,               \* per shard: the fields of the FaissIndex object
    registered,          \* the instance is in IndexRegistry._registry
    indexing_queue,      \* GenericProvider._indexing_queue of the instance
    jobs,                \* _apply_operations executions in the executor
    full_indices,        \* ClusteringQueue._full_indices (shard positions)
    fillable_registry,   \* IndexRegistry._fillable_registry: whether it has a
                         \* table of the instance, and the table's shards
    clustering,          \* the ClusteringQueue thread
    client,              \* a caller of load / search / release on a shard
    active_context_ids,  \* ContextManager._active_context_ids
    live,                \* history: ids whose last submitted operation is INSERT
    pushes,              \* history: number of operations submitted
    \* ---- SpecShard: threads that call the methods of one FaissIndex
    callers,             \* per thread: the call it makes and how far it is
    calls,               \* history: number of calls made
    \* ---- SpecMemory: the MemoryManager
    memory_available,             \* MemoryManager._memory_available
    indexing_memory_available,    \* MemoryManager._indexing_memory_available
    clustering_memory_available,  \* MemoryManager._clustering_memory_available
    memLast,             \* history: the last call, its outcome, the counters before
    memCalls,            \* history: number of calls made
    \* ---- SpecLifecycle: one caller of a FaissIndex and the ContextManager
    contexts,            \* the Context objects generated: _id and _released,
                         \* and (history) whether the shard has released it
    lifeLast,            \* history: the last call, its outcome, the state before
    saved,               \* history: _ids and _is_clustered at the last save
    lifeCalls,           \* history: number of calls made
    \* ---- SpecStartup
    startup,             \* IndexRegistry while an added instance is loaded:
                         \* the directory, the handler's position, _lock,
                         \* _registry, _fillable_registry, events published
    \* ---- SpecObservers
    instance_registry,   \* ProviderInstanceRegistry: _registry[key], _lock,
                         \* the calling threads, what each observer received
    \* ---- SpecWriterLoop
    indexing_loop,       \* IndexingQueue.run: its position, the provider's
                         \* _indexing_queue, the jobs given to _executor
    \* ---- SpecProvider
    provider,            \* one ImapProvider: _setup_completed, _mail, and
                         \* (history) what its run() calls did
    \* ---- SpecStop
    status               \* ProviderQueue._status

fetchVars == <<now, nextId, registry, lastFetched, pendingEvent, provider_instances,
               active_tasks, schedPc, first_entry, popped, wakeAt, tasks,
               lastFailStart, removedDelivered>>

coalesceVars == <<operations>>

indexVars == <<disk, shard, registered, indexing_queue, jobs, full_indices,
               fillable_registry,
               clustering, client, active_context_ids, live, pushes>>

callVars == <<callers, calls>>

memVars == <<memory_available, indexing_memory_available,
             clustering_memory_available, memLast, memCalls>>

\* the components that are units of their own
lifeVars == <<contexts, lifeLast, saved, lifeCalls>>

startVars == <<startup>>

regVars == <<instance_registry>>

loopVars == <<indexing_loop>>

provVars == <<provider>>

stopVars == <<status>>

unitVars == <<memVars, lifeVars, startVars, regVars, loopVars, provVars, stopVars>>

nonFetchVars == <<coalesceVars, indexVars, callVars, unitVars>>

vars == <<fetchVars, coalesceVars, indexVars, callVars, unitVars>>

\* ==================================== IndexingQueue._apply_operations (1)
\* An IndexingOperation: DELETE carries the document too, only its id is used
Op(type, id, data) == [type |-> type, id |-> id, data |-> data]
AllOps == {Op("INSERT", d, c) : d \in Docs, c \in Contents}
             \cup {Op("DELETE", d, 0) : d \in Docs}

\* reduced_operations is a dict: a list of <<doc_id, list>> in insertion order
HasKey(red, d) == \E i \in 1..Len(red) : red[i][1] = d
Lookup(red, d) ==
    IF HasKey(red, d) THEN red[CHOOSE i \in 1..Len(red) : red[i][1] = d][2]
    ELSE <<>>
SetKey(red, d, l) ==
    IF HasKey(red, d)
    THEN [i \in 1..Len(red) |-> IF red[i][1] = d THEN <<d, l>> ELSE red[i]]
    ELSE Append(red, <<d, l>>)
RECURSIVE PopKey(_, _)
PopKey(red, d) ==
    IF red = <<>> THEN <<>>
    ELSE IF Head(red)[1] = d THEN Tail(red)
    ELSE <<Head(red)>> \o PopKey(Tail(red), d)
Last(l) == l[Len(l)]

\* lines 128-133
ReduceInsert(red, op) ==
    LET cur == Lookup(red, op.id) IN
    IF cur # <<>> /\ Last(cur).type = "DELETE"
    THEN SetKey(red, op.id, Append(cur, op))
    ELSE SetKey(red, op.id, <<op>>)

\* lines 134-145
ReduceDelete(red, op) ==
    LET cur == Lookup(red, op.id) IN
    IF Len(cur) > 1 /\ Last(cur).type = "INSERT"
                    /\ cur[Len(cur) - 1].type = "DELETE"
    THEN SetKey(red, op.id, <<op>>)
    ELSE IF cur # <<>> /\ Last(cur).type = "INSERT"
    THEN PopKey(red, op.id)
    ELSE SetKey(red, op.id, <<op>>)

\* lines 123-145
RECURSIVE Reduce(_, _)
Reduce(ops, red) ==
    IF ops = <<>> THEN red
    ELSE Reduce(Tail(ops), IF Head(ops).type = "INSERT"
                           THEN ReduceInsert(red, Head(ops))
                           ELSE ReduceDelete(red, Head(ops)))

RECURSIVE InsertsOf(_)
InsertsOf(l) ==
    IF l = <<>> THEN <<>>
    ELSE (IF Head(l).type = "INSERT" THEN <<<<Head(l).id, Head(l).data>>>> ELSE <<>>)
         \o InsertsOf(Tail(l))

\* lines 147-156: the documents to insert, in dict order, and the ids to delete
RECURSIVE InsertOperations(_)
InsertOperations(red) ==
    IF red = <<>> THEN <<>>
    ELSE InsertsOf(Head(red)[2]) \o InsertOperations(Tail(red))

DeleteOperations(red) ==
    {red[i][1] : i \in {k \in 1..Len(red) :
                          \E n \in 1..Len(red[k][2]) : red[k][2][n].type = "DELETE"}}

\* ---- the vectors of a FAISS index: a bag of <<id, data>>
\* faiss add_with_ids (faiss_index.py line 98): appends, no check for known ids
RECURSIVE AddWithIds(_, _)
AddWithIds(vecs, documents) ==
    IF documents = <<>> THEN vecs
    ELSE AddWithIds(vecs (+) SetToBag({Head(documents)}), Tail(documents))

\* faiss remove_ids (faiss_index.py line 107): every vector of the given ids
RemoveIds(vecs, ids) ==
    [v \in {x \in DOMAIN vecs : x[1] \notin ids} |-> vecs[v]]

\* ---- SpecCoalesce: one document id, its operations applied to an empty shard
TheDoc == 1

\* the original operations, one insert / remove call each
RECURSIVE ApplyInOrder(_, _)
ApplyInOrder(vecs, ops) ==
    IF ops = <<>> THEN vecs
    ELSE ApplyInOrder(IF Head(ops).type = "INSERT"
                      THEN AddWithIds(vecs, <<<<Head(ops).id, Head(ops).data>>>>)
                      ELSE RemoveIds(vecs, {Head(ops).id}),
                      Tail(ops))

\* the coalesced output: remove(deletes), then insert(inserts) (lines 182-184)
ApplyCoalesced(vecs, ops) ==
    LET red == Reduce(ops, <<>>) IN
    AddWithIds(RemoveIds(vecs, DeleteOperations(red)), InsertOperations(red))

CoalesceStart == operations = <<>>

Submit(op) ==
    /\ Len(operations) < MaxSeq
    /\ operations' = Append(operations, op)
    /\ UNCHANGED <<fetchVars, indexVars, callVars, unitVars>>

NextCoalesce == \E op \in {o \in AllOps : o.id = TheDoc} : Submit(op)

\* ============================================================== FaissIndex
NoIndex == [loaded |-> FALSE, vecs |-> EmptyBag, ivf |-> FALSE]

IdsOf(vecs) == {v[1] : v \in DOMAIN vecs}

\* the clusters of cluster(cluster_n), scaled with the sizes
ClusterCells == 1

\* size (lines 119-133): recomputed from the resident index, else the cached
\* _size
ComputedSize(ix) ==
    4 * EMBEDDING_DIMS * BagCardinality(ix.vecs)
      + (IF ix.ivf THEN ClusterCells * EMBEDDING_DIMS * 4
                        + BagCardinality(ix.vecs) * 4 * 4
         ELSE 0)
SizeOf(sh) == IF sh.index.loaded THEN ComputedSize(sh.index) ELSE sh.size

\* max_doc_size (lines 136-138)
max_doc_size == 4 * EMBEDDING_DIMS

\* capacity (lines 140-143)
Capacity(sh, max_index_size) ==
    IF (max_index_size - SizeOf(sh)) \div max_doc_size > 0
    THEN (max_index_size - SizeOf(sh)) \div max_doc_size ELSE 0

\* the lock of a shard can be taken
TakesAnyway(sh) == TRUE
Acquirable(sh) == sh.lock = Free

\* load (lines 31-51)
Loaded(sh, file, context) ==
    IF sh.index.loaded
    THEN [sh EXCEPT !.context = @ \cup context]
    ELSE [sh EXCEPT !.context = @ \cup context,
                    !.index = [loaded |-> TRUE, vecs |-> file.vecs, ivf |-> file.ivf],
                    !.is_clustered = IF file.ivf THEN TRUE ELSE @,
                    !.size = file.size,
                    !.ids = file.ids]

\* release (lines 53-62), without the context.free() of line 57
Released(sh, context) ==
    IF sh.context \ context = {}
    THEN [sh EXCEPT !.context = {}, !.index = NoIndex, !.is_clustered = FALSE]
    ELSE [sh EXCEPT !.context = @ \ context]

\* insert (lines 94-99)
Inserted(sh, documents) ==
    [sh EXCEPT !.index.vecs = AddWithIds(@, documents),
               !.ids = @ \cup {documents[i][1] : i \in 1..Len(documents)}]

\* remove (lines 106-109)
Removed(sh, ids) ==
    [sh EXCEPT !.index.vecs = RemoveIds(@, ids), !.ids = @ \ ids]

\* cluster (lines 150-172)
Clustered(sh) ==
    IF BagCardinality(sh.index.vecs) > 0 /\ ~sh.index.ivf
    THEN [sh EXCEPT !.index.ivf = TRUE, !.is_clustered = TRUE]
    ELSE sh

\* ContextManager.generate (context.py lines 58-68): an id that is not active
NewContext == CHOOSE c \in 1..(Cardinality(active_context_ids) + 1) :
                  c \notin active_context_ids

\* INDEX_CLUSTERING_THRESHOLD, in hundredths
ThresholdPercent == 95

\* round(): to the nearest integer, ties to the even one
Round(num, den) ==
    LET q == num \div den
        r == num % den
    IN  IF 2 * r > den THEN q + 1
        ELSE IF 2 * r < den THEN q
        ELSE IF q % 2 = 0 THEN q ELSE q + 1

\* MemoryManager.is_index_full (memory.py line 161)
is_index_full(size) == Round(size * ThresholdPercent, 100) >= MAX_INDEX_SIZE

\* ============================= SpecIndex: IndexingQueue and ClusteringQueue
NoJob == [pc |-> "none", ops |-> <<>>, inserts |-> <<>>, work |-> <<>>,
          begin |-> 0, capacity |-> 0, context |-> 0, pre |-> EmptyBag]
IdleClustering == [pc |-> "idle", shard |-> 0, context |-> 0]
IdleClient == [pc |-> "idle", shard |-> 0, context |-> 0, saw |-> "none"]

\* the index file and sidecar of a shard that holds the documents D
FileOf(D) == [vecs |-> SetToBag({<<d, 1>> : d \in D}), ivf |-> FALSE,
              size |-> 4 * EMBEDDING_DIMS * Cardinality(D), ids |-> D]

\* _load_provider_indices lines 223-224: the table of the instance is made
\* with the first shard that is not full
FillableAtLoad ==
    [present |-> \E s \in Shards : ~is_index_full(disk[s].size),
     shards |-> {s \in Shards : ~is_index_full(disk[s].size)}]
NoTable == [present |-> FALSE, shards |-> {}]

\* After startup: _load_provider_indices (index_registry.py lines 211-230) has
\* loaded and released every shard file of the instance, readable under the
\* path the shard was constructed with; the files hold disjoint id sets.
IndexAt(place) ==
    /\ disk = [s \in Shards |-> FileOf({d \in Docs : place[d] = s})]
    /\ shard = [s \in Shards |->
                  [index |-> NoIndex, is_clustered |-> FALSE,
                   size |-> disk[s].size, ids |-> disk[s].ids,
                   lock |-> Free, context |-> {}]]
    /\ registered = TRUE
    /\ indexing_queue = <<>>
    /\ jobs = [j \in Jobs |-> NoJob]
    /\ full_indices = {s \in Shards : is_index_full(disk[s].size)}
    /\ fillable_registry = FillableAtLoad
    /\ clustering = IdleClustering
    /\ client = IdleClient
    /\ active_context_ids = {}
    /\ live = UNION {disk[s].ids : s \in Shards}
    /\ pushes = 0

\* the shard files hold no document
NoFiles == [d \in Docs |-> 0]

otherFrame == <<fetchVars, coalesceVars, callVars, unitVars, disk>>
indexFrame == <<otherFrame, fillable_registry>>

\* GenericProvider.push by the provider of the instance (generic_provider.py
\* lines 178-184); a document is inserted when it is not indexed, with the
\* content the provider fetched (the newest one)
Push(op) ==
    /\ pushes < MaxPushes
    /\ registered
    /\ op.type = "INSERT" => op.id \notin live /\ op.data = NumContents
    /\ indexing_queue' = Append(indexing_queue, op)
    /\ live' = IF op.type = "INSERT" THEN live \cup {op.id} ELSE live \ {op.id}
    /\ pushes' = pushes + 1
    /\ UNCHANGED <<shard, registered, jobs, full_indices, clustering, client,
                   active_context_ids>>
    /\ UNCHANGED indexFrame

\* IndexRegistry.notify, REMOVE branch (index_registry.py lines 102-104)
RemoveInstance ==
    /\ registered
    /\ registered' = FALSE
    /\ fillable_registry' = NoTable
    /\ UNCHANGED <<shard, indexing_queue, jobs, full_indices, clustering, client,
                   active_context_ids, live, pushes>>
    /\ UNCHANGED otherFrame

\* IndexingQueue.run lines 110-113 with IndexRegistry.drain_queue
Drain(j) ==
    /\ registered
    /\ indexing_queue # <<>>
    /\ jobs[j] = NoJob
    /\ \A k \in Jobs : jobs[k] = NoJob => j <= k
    /\ jobs' = [jobs EXCEPT ![j] = [NoJob EXCEPT !.pc = "plan", !.ops = indexing_queue]]
    /\ indexing_queue' = <<>>
    /\ UNCHANGED <<shard, registered, full_indices, clustering, client,
                   active_context_ids, live, pushes>>
    /\ UNCHANGED indexFrame

\* lines 158-175: the shards hit by a delete, in registry order
RECURSIVE ReservedIndices(_, _)
ReservedIndices(s, deletes) ==
    IF s > NumShards THEN <<>>
    ELSE (IF shard[s].ids \cap deletes # {}
          THEN <<<<s, shard[s].ids \cap deletes>>>> ELSE <<>>)
         \o ReservedIndices(s + 1, deletes)

jobFrame == <<registered, indexing_queue, full_indices, clustering, client,
              live, pushes>>

\* _apply_operations lines 123-179
JobPlan(j) ==
    /\ jobs[j].pc = "plan"
    /\ LET red == Reduce(jobs[j].ops, <<>>)
           work == ReservedIndices(1, DeleteOperations(red))
       IN  jobs' = [jobs EXCEPT ![j] =
                      IF ~registered \/ work = <<>> THEN NoJob
                      ELSE [NoJob EXCEPT !.pc = "load",
                                         !.inserts = InsertOperations(red),
                                         !.work = work]]
    /\ UNCHANGED <<shard, active_context_ids>>
    /\ UNCHANGED jobFrame
    /\ UNCHANGED indexFrame

ShardOf(j) == Head(jobs[j].work)[1]
HitsOf(j) == Head(jobs[j].work)[2]

\* lines 180-181: generate and load
JobLoad(j) ==
    /\ jobs[j].pc = "load"
    /\ Acquirable(shard[ShardOf(j)])
    /\ active_context_ids' = active_context_ids \cup {NewContext}
    /\ shard' = [shard EXCEPT ![ShardOf(j)] = Loaded(@, disk[ShardOf(j)], {NewContext})]
    /\ jobs' = [jobs EXCEPT ![j].pc = "remove", ![j].context = NewContext]
    /\ UNCHANGED jobFrame
    /\ UNCHANGED indexFrame

\* line 182, remove: the lock is taken (NotLoadedError ends the job)
JobRemoveBegin(j) ==
    /\ jobs[j].pc = "remove"
    /\ Acquirable(shard[ShardOf(j)])
    /\ IF shard[ShardOf(j)].index.loaded
       THEN /\ shard' = [shard EXCEPT ![ShardOf(j)].lock = j]
            /\ jobs' = [jobs EXCEPT ![j].pc = "in_remove",
                                    ![j].pre = shard[ShardOf(j)].index.vecs]
       ELSE /\ jobs' = [jobs EXCEPT ![j] = NoJob]
            /\ UNCHANGED shard
    /\ UNCHANGED active_context_ids
    /\ UNCHANGED jobFrame
    /\ UNCHANGED indexFrame

\* line 182, remove: the body, and the lock is given back
JobRemoveEnd(j) ==
    /\ jobs[j].pc = "in_remove"
    /\ shard' = [shard EXCEPT ![ShardOf(j)] = [Removed(@, HitsOf(j)) EXCEPT !.lock = Free]]
    /\ jobs' = [jobs EXCEPT ![j].pc = "capacity"]
    /\ UNCHANGED active_context_ids
    /\ UNCHANGED jobFrame
    /\ UNCHANGED indexFrame

\* line 183: capacity, through the size property
JobCapacity(j) ==
    /\ jobs[j].pc = "capacity"
    /\ Acquirable(shard[ShardOf(j)])
    /\ shard' = [shard EXCEPT ![ShardOf(j)].size = SizeOf(shard[ShardOf(j)])]
    /\ jobs' = [jobs EXCEPT ![j].pc = "insert",
                            ![j].capacity = Capacity(shard[ShardOf(j)], MAX_INDEX_SIZE)]
    /\ UNCHANGED active_context_ids
    /\ UNCHANGED jobFrame
    /\ UNCHANGED indexFrame

\* insert_operations[insertion_begin:insertion_begin + capacity]
Slice(l, begin, capacity) ==
    SubSeq(l, begin + 1, IF begin + capacity < Len(l) THEN begin + capacity ELSE Len(l))
SliceOf(j) == Slice(jobs[j].inserts, jobs[j].begin, jobs[j].capacity)

\* line 184, insert: the lock is taken (NotLoadedError ends the job)
JobInsertBegin(j) ==
    /\ jobs[j].pc = "insert"
    /\ Acquirable(shard[ShardOf(j)])
    /\ IF shard[ShardOf(j)].index.loaded
       THEN /\ shard' = [shard EXCEPT ![ShardOf(j)].lock = j]
            /\ jobs' = [jobs EXCEPT ![j].pc = "in_insert"]
       ELSE /\ jobs' = [jobs EXCEPT ![j] = NoJob]
            /\ UNCHANGED shard
    /\ UNCHANGED active_context_ids
    /\ UNCHANGED jobFrame
    /\ UNCHANGED indexFrame

\* lines 184-185, insert: the body, and the lock is given back
JobInsertEnd(j) ==
    /\ jobs[j].pc = "in_insert"
    /\ shard' = [shard EXCEPT ![ShardOf(j)] = [Inserted(@, SliceOf(j)) EXCEPT !.lock = Free]]
    /\ jobs' = [jobs EXCEPT ![j].pc = "check",
                            ![j].begin = @ + jobs[j].capacity,
                            ![j].pre = EmptyBag]
    /\ UNCHANGED active_context_ids
    /\ UNCHANGED jobFrame
    /\ UNCHANGED indexFrame

\* line 186: check_instance finds the instance
JobCheck(j) ==
    /\ jobs[j].pc = "check"
    /\ registered
    /\ jobs' = [jobs EXCEPT ![j].pc = "save"]
    /\ UNCHANGED <<shard, active_context_ids>>
    /\ UNCHANGED jobFrame
    /\ UNCHANGED indexFrame

\* line 187: save() hands write_index the value of
\* "path != None and self._path", which is False for the default path: the
\* call raises, nothing is written and the job ends with its context attached
JobSave(j) ==
    /\ jobs[j].pc = "save"
    /\ Acquirable(shard[ShardOf(j)])
    /\ jobs' = [jobs EXCEPT ![j] = NoJob]
    /\ UNCHANGED <<shard, active_context_ids>>
    /\ UNCHANGED jobFrame
    /\ UNCHANGED indexFrame

\* lines 188-190: the instance is gone, release and return
JobAbort(j) ==
    /\ jobs[j].pc = "check"
    /\ ~registered
    /\ Acquirable(shard[ShardOf(j)])
    /\ shard' = [shard EXCEPT ![ShardOf(j)] = Released(@, {jobs[j].context})]
    /\ active_context_ids' = active_context_ids \ {jobs[j].context}
    /\ jobs' = [jobs EXCEPT ![j] = NoJob]
    /\ UNCHANGED jobFrame
    /\ UNCHANGED indexFrame

clFrame == <<registered, indexing_queue, jobs, client, live, pushes>>

\* ClusteringQueue.run lines 115-118 and _process_index lines 127-129: get()
\* raises for an instance without a table and the thread ends
ClusteringPop(s) ==
    /\ clustering.pc = "idle"
    /\ s \in full_indices
    /\ full_indices' = full_indices \ {s}
    /\ clustering' = IF registered
                     THEN [IdleClustering EXCEPT !.pc = "load", !.shard = s]
                     ELSE [IdleClustering EXCEPT !.pc = "crashed"]
    /\ UNCHANGED <<shard, active_context_ids>>
    /\ UNCHANGED clFrame
    /\ UNCHANGED indexFrame

\* _process_index lines 130-132
ClusteringLoad ==
    /\ clustering.pc = "load"
    /\ Acquirable(shard[clustering.shard])
    /\ active_context_ids' = active_context_ids \cup {NewContext}
    /\ shard' = [shard EXCEPT ![clustering.shard] =
                    Loaded(@, disk[clustering.shard], {NewContext})]
    /\ clustering' = [clustering EXCEPT !.pc = "cluster", !.context = NewContext]
    /\ UNCHANGED full_indices
    /\ UNCHANGED clFrame
    /\ UNCHANGED indexFrame

\* line 133, cluster: the lock is taken (NotLoadedError ends the thread)
ClusterBegin ==
    /\ clustering.pc = "cluster"
    /\ Acquirable(shard[clustering.shard])
    /\ IF shard[clustering.shard].index.loaded
       THEN /\ shard' = [shard EXCEPT ![clustering.shard].lock = ClusterThread]
            /\ clustering' = [clustering EXCEPT !.pc = "in_cluster"]
       ELSE /\ clustering' = [clustering EXCEPT !.pc = "crashed"]
            /\ UNCHANGED shard
    /\ UNCHANGED <<full_indices, active_context_ids>>
    /\ UNCHANGED clFrame
    /\ UNCHANGED indexFrame

\* line 133, cluster: the body, and the lock is given back
ClusterEnd ==
    /\ clustering.pc = "in_cluster"
    /\ shard' = [shard EXCEPT ![clustering.shard] = [Clustered(@) EXCEPT !.lock = Free]]
    /\ clustering' = [clustering EXCEPT !.pc = "check"]
    /\ UNCHANGED <<full_indices, active_context_ids>>
    /\ UNCHANGED clFrame
    /\ UNCHANGED indexFrame

\* line 133, cluster: training raises (fewer vectors than clusters, or the
\* float slice bound of line 166); the lock is given back, the thread ends
ClusterRaise ==
    /\ clustering.pc = "in_cluster"
    /\ shard' = [shard EXCEPT ![clustering.shard].lock = Free]
    /\ clustering' = [clustering EXCEPT !.pc = "crashed"]
    /\ UNCHANGED <<full_indices, active_context_ids>>
    /\ UNCHANGED clFrame
    /\ UNCHANGED indexFrame

\* line 136: check_instance finds the instance
ClusteringCheck ==
    /\ clustering.pc = "check"
    /\ registered
    /\ clustering' = [clustering EXCEPT !.pc = "save"]
    /\ UNCHANGED <<shard, full_indices, active_context_ids>>
    /\ UNCHANGED clFrame
    /\ UNCHANGED indexFrame

\* line 137: save() raises as in the writer, the thread ends
ClusteringSave ==
    /\ clustering.pc = "save"
    /\ Acquirable(shard[clustering.shard])
    /\ clustering' = [clustering EXCEPT !.pc = "crashed"]
    /\ UNCHANGED <<shard, full_indices, active_context_ids>>
    /\ UNCHANGED clFrame
    /\ UNCHANGED indexFrame

\* line 138 when the instance is gone
ClusteringRelease ==
    /\ clustering.pc = "check"
    /\ ~registered
    /\ Acquirable(shard[clustering.shard])
    /\ shard' = [shard EXCEPT ![clustering.shard] = Released(@, {clustering.context})]
    /\ active_context_ids' = active_context_ids \ {clustering.context}
    /\ clustering' = IdleClustering
    /\ UNCHANGED full_indices
    /\ UNCHANGED clFrame
    /\ UNCHANGED indexFrame

clientFrame == <<registered, indexing_queue, jobs, full_indices, clustering,
                 live, pushes>>

\* another caller of the shard: generate and load
ClientLoad(s) ==
    /\ client.pc = "idle"
    /\ Acquirable(shard[s])
    /\ active_context_ids' = active_context_ids \cup {NewContext}
    /\ shard' = [shard EXCEPT ![s] = Loaded(@, disk[s], {NewContext})]
    /\ client' = [IdleClient EXCEPT !.pc = "loaded", !.shard = s, !.context = NewContext]
    /\ UNCHANGED clientFrame
    /\ UNCHANGED indexFrame

\* the search reads the content between the remove and the insert of a cycle
BetweenRemoveAndInsert(s) ==
    \E j \in Jobs :
        /\ jobs[j].pc = "insert"
        /\ ShardOf(j) = s
        /\ shard[s].index.vecs # jobs[j].pre
        /\ shard[s].index.vecs # AddWithIds(shard[s].index.vecs, SliceOf(j))

\* search (lines 64-81), whole under the lock
ClientSearch ==
    /\ client.pc = "loaded"
    /\ Acquirable(shard[client.shard])
    /\ client' = [client EXCEPT
                    !.pc = "searched",
                    !.saw = IF ~shard[client.shard].index.loaded THEN "error"
                            ELSE IF BetweenRemoveAndInsert(client.shard)
                                 THEN "partial" ELSE "whole"]
    /\ UNCHANGED <<shard, active_context_ids>>
    /\ UNCHANGED clientFrame
    /\ UNCHANGED indexFrame

\* release (lines 53-62)
ClientRelease ==
    /\ client.pc = "searched"
    /\ Acquirable(shard[client.shard])
    /\ shard' = [shard EXCEPT ![client.shard] = Released(@, {client.context})]
    /\ active_context_ids' = active_context_ids \ {client.context}
    /\ client' = IdleClient
    /\ UNCHANGED clientFrame
    /\ UNCHANGED indexFrame

NextIndex ==
    \/ \E op \in AllOps : Push(op)
    \/ RemoveInstance
    \/ \E j \in Jobs : Drain(j)
    \/ \E j \in Jobs : JobPlan(j)
    \/ \E j \in Jobs : JobLoad(j)
    \/ \E j \in Jobs : JobRemoveBegin(j)
    \/ \E j \in Jobs : JobRemoveEnd(j)
    \/ \E j \in Jobs : JobCapacity(j)
    \/ \E j \in Jobs : JobInsertBegin(j)
    \/ \E j \in Jobs : JobInsertEnd(j)
    \/ \E j \in Jobs : JobCheck(j)
    \/ \E j \in Jobs : JobSave(j)
    \/ \E j \in Jobs : JobAbort(j)
    \/ \E s \in Shards : ClusteringPop(s)
    \/ ClusteringLoad
    \/ ClusterBegin
    \/ ClusterEnd
    \/ ClusterRaise
    \/ ClusteringCheck
    \/ ClusteringSave
    \/ ClusteringRelease
    \/ \E s \in Shards : ClientLoad(s)
    \/ ClientSearch
    \/ ClientRelease

\* ================== SpecRegistry: the writer and callers of mark_index_as_full
\* a table that holds every shard again
RefilledAll(table, s) == [table EXCEPT !.shards = Shards]
\* mark_index_as_full line 166: the shard leaves the fillable table
Unfilled(table, s) == [table EXCEPT !.shards = @ \ {s}]

\* mark_index_as_full (index_registry.py lines 160-176) for the shard at
\* position s: ValueError when the table of the instance lacks the shard,
\* KeyError when the instance has no registry entry; else FULL is published
\* and ClusteringQueue.notify_index_state_update (clustering_queue.py lines
\* 83-88) records the position
MarkIndexAsFull(s) ==
    /\ IF ~registered \/ (fillable_registry.present /\ s \notin fillable_registry.shards)
       THEN UNCHANGED <<fillable_registry, full_indices>>
       ELSE /\ fillable_registry' =
                  IF fillable_registry.present THEN Unfilled(fillable_registry, s)
                  ELSE fillable_registry
            /\ full_indices' = full_indices \cup {s}
    /\ UNCHANGED <<shard, registered, indexing_queue, jobs, clustering, client,
                   active_context_ids, live, pushes>>
    /\ UNCHANGED otherFrame

NextRegistry ==
    \/ \E s \in Shards : MarkIndexAsFull(s)
    \/ \E op \in AllOps : Push(op)
    \/ RemoveInstance
    \/ \E j \in Jobs : Drain(j)
    \/ \E j \in Jobs : JobPlan(j)
    \/ \E j \in Jobs : JobLoad(j)
    \/ \E j \in Jobs : JobRemoveBegin(j)
    \/ \E j \in Jobs : JobRemoveEnd(j)
    \/ \E j \in Jobs : JobCapacity(j)
    \/ \E j \in Jobs : JobInsertBegin(j)
    \/ \E j \in Jobs : JobInsertEnd(j)
    \/ \E j \in Jobs : JobCheck(j)
    \/ \E j \in Jobs : JobSave(j)
    \/ \E j \in Jobs : JobAbort(j)

\* ============= SpecStartup: IndexRegistry.notify for an instance that is added
\* the size a sidecar file records for a shard of n vectors
FileSizes ==
    {ComputedSize([vecs |-> [v \in 1..n |-> 1], ivf |-> FALSE]) : n \in 0..MaxVectors}

\* the index directory of the instance: the sidecar sizes of its shard files
Directories == UNION {[1..n -> FileSizes] : n \in 0..MaxFiles}

NoList == [present |-> FALSE, shards |-> <<>>]

\* IndexRegistry.__init__ (index_registry.py lines 53-62): empty tables, a free
\* lock, no instance in the InstanceRegistry, empty sets in IndexingQueue and
\* ClusteringQueue.  exists: the index directory is there; found: the bare file name that
\* line 214 passes to the index class resolves to the file (the working
\* directory is the index directory)
StartupAt(exists, dir, found) ==
    startup = [exists |-> exists, dir |-> dir, found |-> found,
               pc |-> "idle", files |-> <<>>, position |-> 0, size |-> 0,
               _lock |-> "free", _registry |-> NoList,
               _fillable_registry |-> NoList, adds |-> 0, fulls |-> 0,
               caller |-> "out", result |-> "none",
               instance |-> FALSE, removed |-> FALSE, calls |-> 0,
               _provider_instances |-> {}, _full_indices |-> {}]

startFrame == <<fetchVars, coalesceVars, indexVars, callVars, memVars, lifeVars,
                regVars, loopVars, provVars, stopVars>>

\* ProviderInstanceRegistry.add publishes ADD to IndexRegistry.notify
\* (provider_instance_registry.py lines 41-47)
AddInstance ==
    /\ startup.pc = "idle"
    /\ ~startup.removed
    /\ startup' = [startup EXCEPT !.pc = "notify", !.instance = TRUE]
    /\ UNCHANGED startFrame

\* notify lines 99-101: take the registry lock, test the registry entry
NotifyLock ==
    /\ startup.pc = "notify"
    /\ startup._lock = "free"
    /\ startup' = [startup EXCEPT
           !._lock = IF startup._registry.present THEN "free" ELSE "notify",
           !.pc = IF startup._registry.present THEN "done" ELSE "load"]
    /\ UNCHANGED startFrame

\* _load_provider_indices lines 201-207: list the directory; ValueError for
\* an instance that has left the InstanceRegistry; iterdir raises when the
\* directory is missing; an exception leaves notify, releasing the lock
ListFiles ==
    /\ startup.pc = "load"
    /\ startup' =
         IF startup.instance /\ startup.exists
         THEN [startup EXCEPT !.pc = "file", !.files = startup.dir]
         ELSE [startup EXCEPT !.pc = "raised", !._lock = "free"]
    /\ UNCHANGED startFrame

\* lines 211-217: the next file is loaded and released with a fresh token, so
\* that its size is known; an unresolved name gives a new empty index
\* (faiss_index.py lines 36-51).  No file left: notify returns.
NextFile ==
    /\ startup.pc = "file"
    /\ startup' =
         IF startup.files = <<>>
         THEN [startup EXCEPT !.pc = "done", !._lock = "free"]
         ELSE [startup EXCEPT
                 !.pc = "lock",
                 !.position = @ + 1,
                 !.size = IF startup.found THEN Head(startup.files) ELSE 0,
                 !.files = Tail(@)]
    /\ UNCHANGED startFrame

Listed(list, position) == [present |-> TRUE, shards |-> Append(list.shards, position)]

\* lines 221-230: `with self._lock` for the tables.  threading.Lock is not
\* reentrant: the thread that took it at line 99 waits here for ever.  With
\* the lock free the shard is appended to the tables and ADD, and FULL for a
\* full shard, are published.
LoadLock ==
    /\ startup.pc = "lock"
    /\ startup._lock \in {"free", "notify"}
    /\ startup' =
         IF startup._lock = "notify"
         THEN [startup EXCEPT !.pc = "blocked"]
         ELSE [startup EXCEPT
                 !.pc = "file",
                 !._registry = Listed(@, startup.position),
                 !._fillable_registry =
                     IF is_index_full(startup.size) THEN @
                     ELSE Listed(@, startup.position),
                 !.adds = @ + 1,
                 !.fulls = IF is_index_full(startup.size) THEN @ + 1 ELSE @]
    /\ UNCHANGED startFrame

\* IndexRegistry.get / get_fillable (lines 106-120) called by another thread
GetLock ==
    /\ startup.caller = "out"
    /\ startup._lock = "free"
    /\ startup' = [startup EXCEPT !._lock = "get", !.caller = "in"]
    /\ UNCHANGED startFrame

\* lines 108-111: ValueError without a table of the instance
GetReturn ==
    /\ startup.caller = "in"
    /\ startup' = [startup EXCEPT
           !._lock = "free", !.caller = "out",
           !.result = IF startup._registry.present THEN "returned" ELSE "raised"]
    /\ UNCHANGED startFrame

NextStartup ==
    \/ AddInstance
    \/ NotifyLock
    \/ ListFiles
    \/ NextFile
    \/ LoadLock
    \/ GetLock
    \/ GetReturn

\* ======== SpecTables: the IndexRegistry with its callers and its observers
TheInstance == 1

\* the shard that request_index_creation makes: its path carries the time
NewShard == MaxFiles + startup.calls + 1
ShardPaths == 1..(MaxFiles + MaxTableCalls)

\* request_index_creation (index_registry.py lines 144-158): ValueError for an
\* instance that is not in the InstanceRegistry; else the new shard is
\* appended to the registry table under the lock and ADD is published, which
\* IndexingQueue.notify_registry_update records (indexing_queue.py lines 70-75)
RequestIndexCreation ==
    /\ startup.calls < MaxTableCalls
    /\ startup.instance => startup._lock = "free"
    /\ startup' =
         IF ~startup.instance
         THEN [startup EXCEPT !.calls = @ + 1, !.result = "raised"]
         ELSE [startup EXCEPT
                 !.calls = @ + 1,
                 !.result = "returned",
                 !._registry = Listed(@, NewShard),
                 !.adds = @ + 1,
                 !._provider_instances = @ \cup {TheInstance}]
    /\ UNCHANGED startFrame

Deleted(list, path) == [list EXCEPT !.shards = SelectSeq(@, LAMBDA x : x # path)]
Holds(list, path) == \E i \in 1..Len(list.shards) : list.shards[i] = path
PositionOf(list, path) == CHOOSE i \in 1..Len(list.shards) : list.shards[i] = path

\* the fillable table has an entry for the instance and lacks the shard
NotFillable(path) ==
    startup._fillable_registry.present /\ ~Holds(startup._fillable_registry, path)

\* mark_index_as_full (lines 160-176).  Under the lock: when the fillable
\* table has an entry for the instance, the shard is deleted from it, or
\* ValueError when it is not there.  After the lock: the shard is looked up
\* in the registry table (KeyError without an entry, ValueError without the
\* shard) and FULL is published with its position, which
\* ClusteringQueue.notify_index_state_update records (clustering_queue.py
\* lines 83-88).
MarkFull(path) ==
    /\ startup.calls < MaxTableCalls
    /\ startup._lock = "free"
    /\ startup' =
         IF NotFillable(path)
         THEN [startup EXCEPT !.calls = @ + 1, !.result = "raised"]
         ELSE IF ~startup._registry.present \/ ~Holds(startup._registry, path)
         THEN [startup EXCEPT
                 !.calls = @ + 1, !.result = "raised",
                 !._fillable_registry = Deleted(@, path)]
         ELSE [startup EXCEPT
                 !.calls = @ + 1, !.result = "returned",
                 !._fillable_registry = Deleted(@, path),
                 !.fulls = @ + 1,
                 !._full_indices = @ \cup {PositionOf(startup._registry, path)}]
    /\ UNCHANGED startFrame

\* ProviderInstanceRegistry.remove (provider_instance_registry.py lines 48-52)
\* with IndexRegistry.notify for REMOVE (index_registry.py lines 99-104): the
\* two tables of the instance are popped under the lock; no observer of the
\* IndexRegistry is called
RemoveProvider ==
    /\ startup.instance
    /\ startup._lock = "free"
    /\ startup' = [startup EXCEPT
           !.instance = FALSE, !.removed = TRUE,
           !._registry = NoList, !._fillable_registry = NoList]
    /\ UNCHANGED startFrame

NextTables ==
    \/ AddInstance
    \/ NotifyLock
    \/ ListFiles
    \/ NextFile
    \/ LoadLock
    \/ GetLock
    \/ GetReturn
    \/ RequestIndexCreation
    \/ \E path \in ShardPaths : MarkFull(path)
    \/ RemoveProvider

\* ====== SpecObservers: threads calling ProviderInstanceRegistry.add / remove
Callers == 1..NumCallers
Observers == 1..NumObservers
IdleCaller == [pc |-> "idle", op |-> "none", event |-> 0, observer |-> 0]

\* __init__ (provider_instance_registry.py lines 21-23; the retriever's
\* lines 32-35 add the Lock).  _registry is the provider stored under the one
\* key (None: absent; t: the provider that caller t passes to add).
RegistryStart(locked) ==
    instance_registry =
        [locked |-> locked, _registry |-> None, _lock |-> Free,
         thread |-> [t \in Callers |-> IdleCaller],
         received |-> [o \in Observers |-> <<>>],
         changes |-> <<>>, event |-> 0, calls |-> 0,
         added |-> 0, trues |-> 0, events |-> 0]

regFrame == <<fetchVars, coalesceVars, indexVars, callVars, memVars, lifeVars,
              startVars, loopVars, provVars, stopVars>>

\* a thread calls add(key, its provider) or remove(key)
RegistryCall(t, op) ==
    /\ instance_registry.thread[t].pc = "idle"
    /\ instance_registry.calls < MaxRegistryCalls
    /\ instance_registry' = [instance_registry EXCEPT
           !.calls = @ + 1,
           !.thread[t] = [IdleCaller EXCEPT
               !.op = op,
               !.pc = IF instance_registry.locked THEN "lock" ELSE "test"]]
    /\ UNCHANGED regFrame

\* `with self._lock` (retriever lines 86 and 99)
RegistryLock(t) ==
    /\ instance_registry.thread[t].pc = "lock"
    /\ instance_registry._lock = Free
    /\ instance_registry' = [instance_registry EXCEPT
           !._lock = t, !.thread[t].pc = "test"]
    /\ UNCHANGED regFrame

\* leaving the with-block
Unlocked(lock, t) == IF lock = t THEN Free ELSE lock

\* `if key in self._registry` (lines 42 and 49; retriever lines 87 and 100):
\* add returns False for a present key, remove returns for an absent one
RegistryTest(t) ==
    /\ instance_registry.thread[t].pc = "test"
    /\ LET present == instance_registry._registry # None
           goes == (instance_registry.thread[t].op = "add") = ~present
       IN  instance_registry' = [instance_registry EXCEPT
               !.thread[t] = IF goes THEN [@ EXCEPT !.pc = "change"] ELSE IdleCaller,
               !._lock = IF goes THEN @ ELSE Unlocked(@, t)]
    /\ UNCHANGED regFrame

\* add line 44 (retriever line 89, after which the with-block ends): the
\* provider is stored.  remove lines 50-51 (retriever 103-104): kill, pop;
\* KeyError when the key has gone since the test.  Then _notify_all starts.
RegistryChange(t) ==
    /\ instance_registry.thread[t].pc = "change"
    /\ instance_registry' =
         IF instance_registry.thread[t].op = "add"
         THEN [instance_registry EXCEPT
                 !._registry = t,
                 !._lock = Unlocked(@, t),
                 !.added = IF instance_registry._registry = None THEN @ + 1 ELSE @,
                 !.changes = Append(@, <<"ADD", instance_registry.event + 1>>),
                 !.event = @ + 1,
                 !.events = @ + 1,
                 !.thread[t] = [@ EXCEPT !.pc = "notify", !.observer = 1,
                                         !.event = instance_registry.event + 1]]
         ELSE IF instance_registry._registry = None
         THEN [instance_registry EXCEPT !.thread[t] = IdleCaller]
         ELSE [instance_registry EXCEPT
                 !._registry = None,
                 !.changes = Append(@, <<"REMOVE", instance_registry.event + 1>>),
                 !.event = @ + 1,
                 !.thread[t] = [@ EXCEPT !.pc = "notify", !.observer = 1,
                                         !.event = instance_registry.event + 1]]
    /\ UNCHANGED regFrame

EventOf(t) ==
    <<IF instance_registry.thread[t].op = "add" THEN "ADD" ELSE "REMOVE",
      instance_registry.thread[t].event>>

\* _notify_all (lines 37-39): the next observer is called, in the order of
\* attach
RegistryNotify(t) ==
    /\ instance_registry.thread[t].pc = "notify"
    /\ LET o == instance_registry.thread[t].observer
       IN  instance_registry' = [instance_registry EXCEPT
               !.received[o] = Append(@, EventOf(t)),
               !.thread[t] = IF o = NumObservers
                             THEN [@ EXCEPT !.pc = "return"]
                             ELSE [@ EXCEPT !.observer = o + 1]]
    /\ UNCHANGED regFrame

\* add returns True (line 46); remove returns, in the retriever leaving the
\* with-block of line 99
RegistryReturn(t) ==
    /\ instance_registry.thread[t].pc = "return"
    /\ instance_registry' = [instance_registry EXCEPT
           !.trues = IF instance_registry.thread[t].op = "add" THEN @ + 1 ELSE @,
           !._lock = Unlocked(@, t),
           !.thread[t] = IdleCaller]
    /\ UNCHANGED regFrame

NextObservers ==
    \/ \E t \in Callers, op \in {"add", "remove"} : RegistryCall(t, op)
    \/ \E t \in Callers : RegistryLock(t)
    \/ \E t \in Callers : RegistryTest(t)
    \/ \E t \in Callers : RegistryChange(t)
    \/ \E t \in Callers : RegistryNotify(t)
    \/ \E t \in Callers : RegistryReturn(t)

\* ================= SpecWriterLoop: IndexingQueue.run and its executor jobs
\* the threads of ThreadPoolExecutor(max_workers=4) (indexing_queue.py line
\* 49), scaled
IndexingWorkers == 2

\* IndexingQueue.__init__ (lines 43-51) for one active instance: the loop is
\* in its wait, the provider's queue is empty, no job was submitted.  An
\* operation is the number of its push.
LoopStart ==
    indexing_loop = [pc |-> "wait", _indexing_queue |-> <<>>, work |-> <<>>,
                     pushed |-> 0]

loopFrame == <<fetchVars, coalesceVars, indexVars, callVars, memVars, lifeVars,
               startVars, regVars, provVars, stopVars>>

\* GenericProvider.push (generic_provider.py lines 178-184)
LoopPush ==
    /\ indexing_loop.pushed < MaxLoopPushes
    /\ indexing_loop' = [indexing_loop EXCEPT
                           !._indexing_queue = Append(@, indexing_loop.pushed + 1),
                           !.pushed = @ + 1]
    /\ UNCHANGED loopFrame

\* run lines 105-107: wait(timeout=300) returns, by its timeout or by the
\* notify() of notify_registry_update
LoopWake ==
    /\ indexing_loop.pc = "wait"
    /\ indexing_loop' = [indexing_loop EXCEPT !.pc = "drain"]
    /\ UNCHANGED loopFrame

\* run lines 110-113 with drain_queue (index_registry.py lines 191-196): the
\* queue is emptied and a batch that is not empty is submitted
Submitted(work, items) ==
    IF items = <<>> THEN work
    ELSE Append(work, [operations |-> items, at |-> "submitted"])

LoopDrain ==
    /\ indexing_loop.pc = "drain"
    /\ indexing_loop' = [indexing_loop EXCEPT
                           !.pc = "wait",
                           !._indexing_queue = <<>>,
                           !.work = Submitted(@, indexing_loop._indexing_queue)]
    /\ UNCHANGED loopFrame

\* the jobs that a pool thread is executing
Executing(work) == {i \in 1..Len(work) : work[i].at = "running"}

\* a free pool thread takes the oldest job of the executor's queue and calls
\* _apply_operations
ApplyBegin(i) ==
    /\ i \in 1..Len(indexing_loop.work)
    /\ indexing_loop.work[i].at = "submitted"
    /\ \A k \in 1..(i - 1) : indexing_loop.work[k].at # "submitted"
    /\ Cardinality(Executing(indexing_loop.work)) < IndexingWorkers
    /\ indexing_loop' = [indexing_loop EXCEPT !.work[i].at = "running"]
    /\ UNCHANGED loopFrame

\* _apply_operations returns or raises (lines 115-191)
ApplyEnd(i) ==
    /\ i \in 1..Len(indexing_loop.work)
    /\ indexing_loop.work[i].at = "running"
    /\ indexing_loop' = [indexing_loop EXCEPT !.work[i].at = "finished"]
    /\ UNCHANGED loopFrame

NextWriterLoop ==
    \/ LoopPush
    \/ LoopWake
    \/ LoopDrain
    \/ \E i \in 1..MaxLoopPushes : ApplyBegin(i)
    \/ \E i \in 1..MaxLoopPushes : ApplyEnd(i)

\* ======================= SpecProvider: the run() calls of one ImapProvider
\* pool threads of the ProviderQueue that call run() of the provider
Runners == 1..NumRunners

\* what _setup does (imap.py lines 33-36): it logs in, IMAP4_SSL raises, or
\* login raises after the connection was made
SetupOutcomes == {"logged_in", "no_connection", "login_refused"}

\* GenericProvider.__init__ (generic_provider.py lines 35-38); the class has
\* no _mail before _setup assigns it
ProviderStart ==
    provider = [_setup_completed |-> FALSE, _mail |-> "none",
                thread |-> [t \in Runners |-> "idle"],
                setups |-> 0, calls |-> 0, unready |-> FALSE]

provFrame == <<fetchVars, coalesceVars, indexVars, callVars, memVars, lifeVars,
               startVars, regVars, loopVars, stopVars>>

\* task_wrapper calls provider_instance.run() (provider_queue.py line 129)
ProviderCall(t) ==
    /\ provider.thread[t] = "idle"
    /\ provider.calls < MaxRuns
    /\ provider' = [provider EXCEPT !.thread[t] = "test", !.calls = @ + 1]
    /\ UNCHANGED provFrame

\* GenericProvider.run line 72, and line 75 when the flag is set: run of
\* ImapProvider goes on (imap.py lines 39-42)
ProviderTest(t) ==
    /\ provider.thread[t] = "test"
    /\ provider' = [provider EXCEPT
                      !.thread[t] = IF provider._setup_completed THEN "read"
                                    ELSE "flag"]
    /\ UNCHANGED provFrame

\* line 73
ProviderFlag(t) ==
    /\ provider.thread[t] = "flag"
    /\ provider' = [provider EXCEPT !._setup_completed = TRUE,
                                    !.thread[t] = "setup"]
    /\ UNCHANGED provFrame

\* line 74 with _setup (imap.py lines 33-36); an exception of _setup leaves
\* run() and the task
ProviderSetup(t, outcome) ==
    /\ provider.thread[t] = "setup"
    /\ provider' = [provider EXCEPT
                      !.setups = @ + 1,
                      !._mail = CASE outcome = "logged_in" -> "logged_in"
                                  [] outcome = "login_refused" -> "connected"
                                  [] OTHER -> @,
                      !.thread[t] = IF outcome = "logged_in" THEN "read"
                                    ELSE "idle"]
    /\ UNCHANGED provFrame

\* imap.py lines 42-46: last_fetched is read and the inbox selected, which
\* raises without a connection that is logged in
ProviderRead(t) ==
    /\ provider.thread[t] = "read"
    /\ provider' = [provider EXCEPT
                      !.unready = @ \/ provider._mail # "logged_in",
                      !.thread[t] = IF provider._mail = "logged_in" THEN "fetch"
                                    ELSE "idle"]
    /\ UNCHANGED provFrame

\* lines 47-89: the fetch, which returns True or raises
ProviderFetch(t) ==
    /\ provider.thread[t] = "fetch"
    /\ provider' = [provider EXCEPT !.thread[t] = "idle"]
    /\ UNCHANGED provFrame

NextProvider ==
    \/ \E t \in Runners : ProviderCall(t)
    \/ \E t \in Runners : ProviderTest(t)
    \/ \E t \in Runners : ProviderFlag(t)
    \/ \E t \in Runners : \E outcome \in SetupOutcomes : ProviderSetup(t, outcome)
    \/ \E t \in Runners : ProviderRead(t)
    \/ \E t \in Runners : ProviderFetch(t)

\* ============================ SpecShard: any threads calling one FaissIndex
TheShard == 1
Idle == [pc |-> "idle", op |-> "none", arg |-> 0]
CallerThread(t) == ClientThread + t

CallStart ==
    /\ callers = [t \in Threads |-> Idle]
    /\ calls = 0

\* the calls a thread may make: load() and release() without a context,
\* insert([document]), remove([id]) and cluster(cluster_n)
Calls ==
    {[pc |-> "called", op |-> o, arg |-> 0] : o \in {"load", "release", "cluster"}}
      \cup {[pc |-> "called", op |-> "insert", arg |-> d] : d \in Docs}
      \cup {[pc |-> "called", op |-> "remove", arg |-> d] : d \in Docs}

callFrame == <<fetchVars, coalesceVars, unitVars, disk, registered, indexing_queue,
               jobs, full_indices, fillable_registry, clustering, client,
               active_context_ids, live, pushes>>

\* a thread calls a method of the shard
Call(t, c) ==
    /\ callers[t] = Idle
    /\ calls < MaxCalls
    /\ callers' = [callers EXCEPT ![t] = c]
    /\ calls' = calls + 1
    /\ UNCHANGED shard
    /\ UNCHANGED callFrame

\* "with self._lock:" is entered; insert, remove and cluster raise
\* NotLoadedError at once when no index is resident
Enter(t) ==
    /\ callers[t].pc = "called"
    /\ Acquirable(shard[TheShard])
    /\ IF callers[t].op \in {"insert", "remove", "cluster"}
          /\ ~shard[TheShard].index.loaded
       THEN /\ callers' = [callers EXCEPT ![t] = Idle]
            /\ UNCHANGED shard
       ELSE /\ callers' = [callers EXCEPT ![t].pc = "inside"]
            /\ shard' = [shard EXCEPT ![TheShard].lock = CallerThread(t)]
    /\ UNCHANGED calls
    /\ UNCHANGED callFrame

\* the body of the method
Body(sh, c) ==
    IF c.op = "load" THEN Loaded(sh, disk[TheShard], {})
    ELSE IF c.op = "release" THEN Released(sh, {})
    ELSE IF c.op = "insert" THEN Inserted(sh, <<<<c.arg, NumContents>>>>)
    ELSE IF c.op = "remove" THEN Removed(sh, {c.arg})
    ELSE Clustered(sh)

\* the body runs and the lock is given back
Leave(t) ==
    /\ callers[t].pc = "inside"
    /\ shard' = [shard EXCEPT ![TheShard] = [Body(@, callers[t]) EXCEPT !.lock = Free]]
    /\ callers' = [callers EXCEPT ![t] = Idle]
    /\ UNCHANGED calls
    /\ UNCHANGED callFrame

NextShard ==
    \/ \E t \in Threads : \E c \in Calls : Call(t, c)
    \/ \E t \in Threads : Enter(t)
    \/ \E t \in Threads : Leave(t)

\* ====================== SpecLifecycle: the calls of one FaissIndex in turn
ContextIds == 1..NumContextIds
NoSnapshot == [taken |-> FALSE, raised |-> FALSE, ids |-> {}, is_clustered |-> FALSE]
NoCall == [op |-> "none", token |-> 0, raised |-> FALSE, again |-> FALSE,
           pre |-> 0, active |-> {}]

LifeStart ==
    /\ contexts = <<>>
    /\ lifeLast = NoCall
    /\ saved = NoSnapshot
    /\ lifeCalls = 0

lifeFrame == <<fetchVars, coalesceVars, callVars, memVars, startVars, regVars,
               loopVars, provVars, stopVars, registered,
               indexing_queue, jobs, full_indices, fillable_registry, clustering,
               client, live, pushes>>

\* the context argument of load and release: no token, or a Context object
Tokens == 0..Len(contexts)
ContextArg(k) == IF k = 0 THEN {} ELSE {contexts[k]._id}

\* a call is made on the shard or the manager; token tells the Context object
\* it is about, raised that it raised
LifeCalled(op, k, raised) ==
    /\ lifeCalls < MaxLifeCalls
    /\ lifeCalls' = lifeCalls + 1
    /\ lifeLast' = [op |-> op, token |-> k, raised |-> raised,
                    again |-> IF k = 0 THEN FALSE
                              ELSE IF op = "release" THEN contexts[k].dropped
                              ELSE contexts[k]._released,
                    pre |-> shard[TheShard], active |-> active_context_ids]
    /\ UNCHANGED lifeFrame

\* ContextManager.generate (context.py lines 58-68): any value of randbits
\* that is not active
Generate(id) ==
    /\ Len(contexts) < MaxTokens
    /\ id \notin active_context_ids
    /\ LifeCalled("generate", 0, FALSE)
    /\ active_context_ids' = active_context_ids \cup {id}
    /\ contexts' = Append(contexts, [_id |-> id, _released |-> FALSE,
                                     dropped |-> FALSE])
    /\ UNCHANGED <<shard, disk, saved>>

\* Context.free (context.py lines 13-21) with ContextManager.free (lines 70-76);
\* byShard tells that release(context) of the shard makes the call
Freed(k, byShard) ==
    IF k = 0 THEN UNCHANGED <<contexts, active_context_ids>>
    ELSE /\ contexts' = [contexts EXCEPT ![k]._released = TRUE,
                                         ![k].dropped = @ \/ byShard]
         /\ active_context_ids' =
                IF contexts[k]._released THEN active_context_ids
                ELSE active_context_ids \ {contexts[k]._id}

ContextFree(k) ==
    /\ k # 0
    /\ LifeCalled("free", k, FALSE)
    /\ Freed(k, FALSE)
    /\ UNCHANGED <<shard, disk, saved>>

\* load(context) (faiss_index.py lines 31-51); a caller loads with a token it
\* has generated for the purpose and not released yet
LifeLoad(k) ==
    /\ k # 0 => ~contexts[k]._released
    /\ LifeCalled("load", k, FALSE)
    /\ shard' = [shard EXCEPT ![TheShard] = Loaded(@, disk[TheShard], ContextArg(k))]
    /\ UNCHANGED <<contexts, active_context_ids, disk, saved>>

\* release(context) (lines 53-62)
LifeRelease(k) ==
    /\ LifeCalled("release", k, FALSE)
    /\ shard' = [shard EXCEPT ![TheShard] = Released(@, ContextArg(k))]
    /\ Freed(k, TRUE)
    /\ UNCHANGED <<disk, saved>>

\* a test that lets every call through
NeverRaises(sh) == FALSE
\* the test of lines 66, 91, 103 and 147
NotLoaded(sh) == ~sh.index.loaded

\* search (lines 64-81): it changes nothing
LifeSearch ==
    /\ LifeCalled("search", 0, NotLoaded(shard[TheShard]))
    /\ UNCHANGED <<shard, contexts, active_context_ids, disk, saved>>

\* insert, remove, cluster (lines 89-109, 145-172); cluster(cluster_n) is
\* called with no more clusters than there are vectors
LifeMutate(c) ==
    /\ LifeCalled(c.op, 0, NotLoaded(shard[TheShard]))
    /\ IF NotLoaded(shard[TheShard])
       THEN UNCHANGED <<shard, saved>>
       ELSE /\ shard' = [shard EXCEPT ![TheShard] = Body(@, c)]
            /\ saved' = NoSnapshot
    /\ UNCHANGED <<contexts, active_context_ids, disk>>

\* capacity(max_index_size) (lines 140-143): it reads the size property, which
\* stores the size of a resident index in _size (lines 119-133)
LifeCapacity ==
    /\ LifeCalled("capacity", 0, FALSE)
    /\ shard' = [shard EXCEPT ![TheShard].size = SizeOf(shard[TheShard])]
    /\ UNCHANGED <<contexts, active_context_ids, disk, saved>>

\* the path argument of save: None, or a string
OwnPath == None
GivenPath == 1
Paths == {OwnPath, GivenPath}

\* save(path) (lines 111-117): write_index gets "path != None and self._path",
\* which is False for save() and self._path for every given path; it raises
\* TypeError for False and for an index that is None
SaveRaises(sh, path) == path = None \/ ~sh.index.loaded

\* the index file and the sidecar that save leaves under self._path
Saved(sh) ==
    [vecs |-> sh.index.vecs, ivf |-> sh.index.ivf, size |-> sh.size, ids |-> sh.ids]

LifeSave(path) ==
    /\ LifeCalled("save", 0, SaveRaises(shard[TheShard], path))
    /\ IF SaveRaises(shard[TheShard], path)
       THEN UNCHANGED disk
       ELSE disk' = [disk EXCEPT ![TheShard] = Saved(shard[TheShard])]
    /\ IF shard[TheShard].index.loaded
       THEN saved' = [taken |-> TRUE, raised |-> path = None,
                      ids |-> shard[TheShard].ids,
                      is_clustered |-> shard[TheShard].is_clustered]
       ELSE UNCHANGED saved
    /\ UNCHANGED <<shard, contexts, active_context_ids>>

\* every method of the shard holds self._lock from its first to its last
\* statement, so one caller sees the calls take place one after the other
NextLifecycle ==
    \/ \E id \in ContextIds : Generate(id)
    \/ \E k \in Tokens : ContextFree(k)
    \/ \E k \in Tokens : LifeLoad(k)
    \/ \E k \in Tokens : LifeRelease(k)
    \/ LifeSearch
    \/ \E c \in {x \in Calls : x.op \in {"insert", "remove", "cluster"}} : LifeMutate(c)
    \/ LifeCapacity
    \/ \E path \in Paths : LifeSave(path)

\* ============================================ SpecMemory: MemoryManager
Amounts == 0..MaxAmount

\* __init__ (memory.py lines 40-42)
MemoryStart ==
    /\ memory_available = MAX_MEMORY
    /\ indexing_memory_available = MAX_INDEXING_MEMORY
    /\ clustering_memory_available = MAX_CLUSTERING_MEMORY
    /\ memLast = [op |-> "none", amount |-> 0, raised |-> FALSE, full |-> FALSE,
                  pre |-> <<MAX_MEMORY, MAX_INDEXING_MEMORY, MAX_CLUSTERING_MEMORY>>]
    /\ memCalls = 0

memFrame == <<fetchVars, coalesceVars, indexVars, callVars, lifeVars, startVars,
              regVars, loopVars, provVars, stopVars>>

Counters == <<memory_available, indexing_memory_available,
              clustering_memory_available>>

\* the call op(amount) is made; raised tells that it raised ValueError
MemCalled(op, amount, raised) ==
    /\ memCalls < MaxMemCalls
    /\ memCalls' = memCalls + 1
    /\ memLast' = [op |-> op, amount |-> amount, raised |-> raised, full |-> FALSE,
                   pre |-> Counters]
    /\ UNCHANGED memFrame

\* the tests of lines 73, 98 and 125
InsufficientGeneral(amount) == amount > memory_available
\* a test that looks at the indexing counter alone
IndexingOnlySpecialized(amount) == amount > indexing_memory_available
InsufficientIndexing(amount) ==
    amount > indexing_memory_available \/ amount > memory_available
InsufficientClustering(amount) ==
    amount > clustering_memory_available \/ amount > memory_available

\* use_memory (lines 62-75)
use_memory(amount) ==
    /\ MemCalled("use_memory", amount, InsufficientGeneral(amount))
    /\ IF InsufficientGeneral(amount)
       THEN UNCHANGED memory_available
       ELSE memory_available' = memory_available - amount
    /\ UNCHANGED <<indexing_memory_available, clustering_memory_available>>

\* free_memory (lines 77-85)
free_memory(amount) ==
    /\ MemCalled("free_memory", amount, FALSE)
    /\ memory_available' = memory_available + amount
    /\ UNCHANGED <<indexing_memory_available, clustering_memory_available>>

\* use_indexing_memory (lines 87-101)
use_indexing_memory(amount) ==
    /\ MemCalled("use_indexing_memory", amount, InsufficientIndexing(amount))
    /\ IF InsufficientIndexing(amount)
       THEN UNCHANGED <<indexing_memory_available, memory_available>>
       ELSE /\ indexing_memory_available' = indexing_memory_available - amount
            /\ memory_available' = memory_available - amount
    /\ UNCHANGED clustering_memory_available

\* free_indexing_memory (lines 103-112)
free_indexing_memory(amount) ==
    /\ MemCalled("free_indexing_memory", amount, FALSE)
    /\ indexing_memory_available' = indexing_memory_available + amount
    /\ memory_available' = memory_available + amount
    /\ UNCHANGED clustering_memory_available

\* use_clustering_memory (lines 114-128)
use_clustering_memory(amount) ==
    /\ MemCalled("use_clustering_memory", amount, InsufficientClustering(amount))
    /\ IF InsufficientClustering(amount)
       THEN UNCHANGED <<clustering_memory_available, memory_available>>
       ELSE /\ clustering_memory_available' = clustering_memory_available - amount
            /\ memory_available' = memory_available - amount
    /\ UNCHANGED indexing_memory_available

\* free_clustering_memory (lines 130-139)
free_clustering_memory(amount) ==
    /\ MemCalled("free_clustering_memory", amount, FALSE)
    /\ clustering_memory_available' = clustering_memory_available + amount
    /\ memory_available' = memory_available + amount
    /\ UNCHANGED indexing_memory_available

\* every call holds self._lock from its first to its last statement
\* is_index_full (lines 151-161) asked about a shard size
Sizes == 0..MaxSize

CheckIndexFull(size) ==
    /\ memCalls < MaxMemCalls
    /\ memCalls' = memCalls + 1
    /\ memLast' = [op |-> "is_index_full", amount |-> size, raised |-> FALSE,
                   full |-> is_index_full(size), pre |-> Counters]
    /\ UNCHANGED Counters
    /\ UNCHANGED memFrame

NextMemory ==
    \/ \E amount \in Amounts : use_memory(amount)
    \/ \E amount \in Amounts : free_memory(amount)
    \/ \E amount \in Amounts : use_indexing_memory(amount)
    \/ \E amount \in Amounts : free_indexing_memory(amount)
    \/ \E amount \in Amounts : use_clustering_memory(amount)
    \/ \E amount \in Amounts : free_clustering_memory(amount)
    \/ \E size \in Sizes : CheckIndexFull(size)

\* =========================================================== ProviderQueue
NoEntry == <<NoTime, None>>

\* tuple order of (last_fetched, id)
EntryLeq(a, b) == a[1] < b[1] \/ (a[1] = b[1] /\ a[2] <= b[2])

\* comparing a naive with an aware datetime raises TypeError
Comparable(list, e) ==
    \A i \in 1..Len(list) : (list[i][1] = NaiveMin) = (e[1] = NaiveMin)

RECURSIVE SortedAdd(_, _)
SortedAdd(list, e) ==
    IF list = <<>> THEN <<e>>
    ELSE IF EntryLeq(Head(list), e)
         THEN <<Head(list)>> \o SortedAdd(Tail(list), e)
         ELSE <<e>> \o list

RECURSIVE WithoutTarget(_, _)
WithoutTarget(list, target) ==
    IF list = <<>> THEN <<>>
    ELSE IF Head(list)[2] # target
         THEN <<Head(list)>> \o WithoutTarget(Tail(list), target)
         ELSE WithoutTarget(Tail(list), target)

\* provider_instance.last_fetched or datetime.min
LastFetchedOrMin(id) ==
    IF lastFetched[id] = NoTime THEN NaiveMin ELSE lastFetched[id]

\* Condition.notify(): the run loop is the only waiter
Notified(pc) ==
    CASE pc = "outer_wait" -> "outer_woken"
      [] pc = "pool_wait"  -> "outer"
      [] pc = "gate_wait"  -> "inner"
      [] OTHER             -> pc
WokenAt(pc, at) == IF pc = "gate_wait" THEN 0 ELSE at

FetchStart ==
    /\ now = 0
    /\ nextId = 1
    /\ registry = {}
    /\ lastFetched = [i \in Instances |-> NoTime]
    /\ pendingEvent = <<"none", None>>
    /\ provider_instances = <<>>
    /\ active_tasks = 0
    /\ schedPc = "outer"
    /\ first_entry = NoEntry
    /\ popped = NoEntry
    /\ wakeAt = 0
    /\ tasks = EmptyBag
    /\ lastFailStart = [i \in Instances |-> NoTime]
    /\ removedDelivered = {}
    /\ status = TRUE

Tick ==
    /\ now < MaxTime
    /\ now' = now + 1
    /\ UNCHANGED <<nextId, registry, lastFetched, pendingEvent, provider_instances,
                   active_tasks, schedPc, first_entry, popped, wakeAt, tasks,
                   removedDelivered>>
    /\ lastFailStart' = [i \in Instances |->
                            IF now + 1 - lastFailStart[i] >= FETCHING_TIME
                            THEN NoTime ELSE lastFailStart[i]]
    /\ UNCHANGED nonFetchVars

\* ---- ProviderInstanceRegistry.add / remove, called by load_instances and
\* by the API handlers add_instance / remove_instance; the key is the primary
\* key of a database row, which the database never hands out twice
RegistryAdd(key, fetched) ==
    /\ pendingEvent[1] = "none"
    /\ key = nextId
    /\ key \notin registry
    /\ nextId' = nextId + 1
    /\ registry' = registry \cup {key}
    /\ lastFetched' = [lastFetched EXCEPT ![key] = fetched]
    /\ pendingEvent' = <<"ADD", key>>
    /\ UNCHANGED <<now, provider_instances, active_tasks, schedPc, first_entry,
                   popped, wakeAt, tasks, lastFailStart, removedDelivered>>
    /\ UNCHANGED nonFetchVars

RegistryRemove(key) ==
    /\ (nextId - 1) - Cardinality(registry) < MaxRemovals
    /\ pendingEvent[1] = "none"
    /\ key \in registry
    /\ registry' = registry \ {key}
    /\ pendingEvent' = <<"REMOVE", key>>
    /\ UNCHANGED <<now, nextId, lastFetched, provider_instances, active_tasks,
                   schedPc, first_entry, popped, wakeAt, tasks, lastFailStart, removedDelivered>>
    /\ UNCHANGED nonFetchVars

\* ---- ProviderQueue.notify
NotifyAdd ==
    /\ pendingEvent[1] = "ADD"
    /\ LET target == pendingEvent[2]
           e == <<LastFetchedOrMin(target), target>>
       IN  IF target \in registry /\ Comparable(provider_instances, e)
           THEN /\ provider_instances' = SortedAdd(provider_instances, e)
                /\ schedPc' = Notified(schedPc)
                /\ wakeAt' = WokenAt(schedPc, wakeAt)
           ELSE UNCHANGED <<provider_instances, schedPc, wakeAt>>
    /\ removedDelivered' = removedDelivered \ {pendingEvent[2]}
    /\ pendingEvent' = <<"none", None>>
    /\ UNCHANGED <<now, nextId, registry, lastFetched, active_tasks, first_entry,
                   popped, tasks, lastFailStart>>
    /\ UNCHANGED nonFetchVars

\* the REMOVE branch, then remove_instance deletes the database row
NotifyRemove ==
    /\ pendingEvent[1] = "REMOVE"
    /\ provider_instances' = WithoutTarget(provider_instances, pendingEvent[2])
    /\ lastFetched' = [lastFetched EXCEPT ![pendingEvent[2]] = NoTime]
    /\ removedDelivered' = removedDelivered \cup {pendingEvent[2]}
    /\ pendingEvent' = <<"none", None>>
    /\ UNCHANGED <<now, nextId, registry, active_tasks, schedPc, first_entry, popped,
                   wakeAt, tasks, lastFailStart>>
    /\ UNCHANGED nonFetchVars

\* ---- ProviderQueue.run
schedFrame == <<nonFetchVars, now, nextId, registry, lastFetched, pendingEvent, tasks, lastFailStart, removedDelivered>>

\* lines 77-81: the test of _status, then wait while the list is empty and
\* _status is set; a woken wait goes on at the test of line 79
SchedOuter ==
    /\ schedPc \in {"outer", "outer_woken"}
    /\ schedPc' = IF schedPc = "outer" /\ ~status THEN "stopped"
                  ELSE IF provider_instances = <<>> /\ status THEN "outer_wait"
                  ELSE "inner"
    /\ UNCHANGED <<provider_instances, active_tasks, first_entry, popped, wakeAt>>
    /\ UNCHANGED schedFrame

\* lines 83-84: the loop condition and the pool test, both read unlocked
SchedInner ==
    /\ schedPc = "inner"
    /\ schedPc' = IF provider_instances = <<>> THEN "outer"
                  ELSE IF active_tasks >= FETCHING_THREADS THEN "pool_full"
                  ELSE "peek"
    /\ UNCHANGED <<provider_instances, active_tasks, first_entry, popped, wakeAt>>
    /\ UNCHANGED schedFrame

\* lines 86-88: take the condition and wait for a free slot
SchedPoolWait ==
    /\ schedPc = "pool_full"
    /\ schedPc' = "pool_wait"
    /\ UNCHANGED <<provider_instances, active_tasks, first_entry, popped, wakeAt>>
    /\ UNCHANGED schedFrame

\* lines 90-92 and _safe_peek
SchedPeek ==
    /\ schedPc = "peek"
    /\ IF provider_instances # <<>>
       THEN /\ first_entry' = provider_instances[1]
            /\ schedPc' = "lookup"
       ELSE /\ first_entry' = NoEntry
            /\ schedPc' = "outer"
    /\ UNCHANGED <<provider_instances, active_tasks, popped, wakeAt>>
    /\ UNCHANGED schedFrame

\* lines 94-107: registry lookup and the FETCHING_TIME gate
SchedLookup ==
    /\ schedPc = "lookup"
    /\ schedPc' =
         IF first_entry[2] \notin registry THEN "pop_missing"
         ELSE IF FETCHING_TIME - (now - first_entry[1]) > 0 THEN "gate"
         ELSE "pop"
    /\ wakeAt' = IF schedPc' = "gate"
                 THEN FETCHING_TIME - (now - first_entry[1]) ELSE 0
    /\ first_entry' = IF schedPc' = "pop" THEN first_entry ELSE NoEntry
    /\ UNCHANGED <<provider_instances, active_tasks, popped>>
    /\ UNCHANGED schedFrame

\* lines 99-101: drop the entry of an unregistered instance
SchedPopMissing ==
    /\ schedPc = "pop_missing"
    /\ IF provider_instances = <<>>
       THEN /\ schedPc' = "crashed"
            /\ UNCHANGED provider_instances
       ELSE /\ provider_instances' = Tail(provider_instances)
            /\ schedPc' = "inner"
    /\ UNCHANGED <<active_tasks, first_entry, popped, wakeAt>>
    /\ UNCHANGED schedFrame

\* lines 109-110: wait(timeout=time_remaining)
SchedGateWait ==
    /\ schedPc = "gate"
    /\ schedPc' = "gate_wait"
    /\ wakeAt' = now + wakeAt
    /\ UNCHANGED <<provider_instances, active_tasks, first_entry, popped>>
    /\ UNCHANGED schedFrame

SchedGateTimeout ==
    /\ schedPc = "gate_wait"
    /\ now >= wakeAt
    /\ schedPc' = "inner"
    /\ wakeAt' = 0
    /\ UNCHANGED <<provider_instances, active_tasks, first_entry, popped>>
    /\ UNCHANGED schedFrame

\* lines 112-113: pop(0)
PopFirst(list) == Tail(list)

SchedPop ==
    /\ schedPc = "pop"
    /\ IF provider_instances = <<>>
       THEN /\ schedPc' = "crashed"
            /\ first_entry' = NoEntry
            /\ UNCHANGED <<provider_instances, popped>>
       ELSE /\ popped' = provider_instances[1]
            /\ provider_instances' = PopFirst(provider_instances)
            /\ schedPc' = "submit"
            /\ UNCHANGED first_entry
    /\ UNCHANGED <<active_tasks, wakeAt>>
    /\ UNCHANGED schedFrame

\* line 114 and _submit_task
Task(id, phase, start) == [id |-> id, phase |-> phase, start |-> start]
Put(bag, t) == bag (+) SetToBag({t})
Take(bag, t) == bag (-) SetToBag({t})

SchedSubmit ==
    /\ schedPc = "submit"
    /\ active_tasks' = active_tasks + 1
    /\ tasks' = Put(tasks, Task(first_entry[2], "submitted", NoTime))
    /\ schedPc' = "inner"
    /\ first_entry' = NoEntry
    /\ popped' = NoEntry
    /\ UNCHANGED <<now, nextId, registry, lastFetched, pendingEvent,
                   provider_instances, wakeAt, lastFailStart,
                   removedDelivered>>
    /\ UNCHANGED nonFetchVars

\* ---- task_wrapper and Provider.run
\* pool threads occupied by a task_wrapper
Busy == BagCardinality(tasks)
        - BagCardinality([t \in {u \in BagToSet(tasks) : u.phase = "submitted"}
                             |-> CopiesIn(t, tasks)])

taskFrame == <<nonFetchVars, now, nextId, registry, pendingEvent, first_entry, popped,
               removedDelivered>>

\* A pool thread picks the task up and run() executes imap.py lines 39-49:
\* setup, the read of last_fetched (None: return False) and
\* initiated_at = datetime.now().
RunStart(t) ==
    /\ t.phase = "submitted"
    /\ Busy < FETCHING_THREADS
    /\ tasks' = Put(Take(tasks, t),
                    Task(t.id, IF lastFetched[t.id] = NoTime THEN "finished"
                               ELSE "running", now))
    /\ lastFailStart' = [lastFailStart EXCEPT ![t.id] =
                     IF lastFetched[t.id] = NoTime THEN now ELSE NoTime]
    /\ UNCHANGED <<lastFetched, provider_instances, active_tasks, schedPc, wakeAt>>
    /\ UNCHANGED taskFrame

\* imap.py lines 87-89: update_last_fetched(initiated_at); return True
UpdatedLastFetched(id, initiated) ==
    IF lastFetched[id] = NoTime THEN lastFetched
    ELSE [lastFetched EXCEPT ![id] = initiated]

RunSucceed(t) ==
    /\ t.phase = "running"
    /\ lastFetched' = UpdatedLastFetched(t.id, t.start)
    /\ tasks' = Put(Take(tasks, t), Task(t.id, "finished", NoTime))
    /\ UNCHANGED <<provider_instances, active_tasks, schedPc, wakeAt, lastFailStart>>
    /\ UNCHANGED taskFrame

\* run() raises or returns False (an IMAP call of lines 46-57 fails)
RunFail(t) ==
    /\ t.phase = "running"
    /\ tasks' = Put(Take(tasks, t), Task(t.id, "finished", NoTime))
    /\ lastFailStart' = [lastFailStart EXCEPT ![t.id] = t.start]
    /\ UNCHANGED <<lastFetched, provider_instances, active_tasks, schedPc, wakeAt>>
    /\ UNCHANGED taskFrame

\* lines 135-137
TaskFinally(t) ==
    /\ t.phase = "finished"
    /\ active_tasks' = active_tasks - 1
    /\ schedPc' = Notified(schedPc)
    /\ wakeAt' = WokenAt(schedPc, wakeAt)
    /\ tasks' = Put(Take(tasks, t), Task(t.id, "reinsert", NoTime))
    /\ UNCHANGED <<lastFetched, provider_instances, lastFailStart>>
    /\ UNCHANGED taskFrame

\* lines 140-143
Reinserted(list, id) ==
    IF Comparable(list, <<LastFetchedOrMin(id), id>>)
    THEN SortedAdd(list, <<LastFetchedOrMin(id), id>>)
    ELSE list

TaskReinsert(t) ==
    /\ t.phase = "reinsert"
    /\ provider_instances' = Reinserted(provider_instances, t.id)
    /\ schedPc' = IF Comparable(provider_instances, <<LastFetchedOrMin(t.id), t.id>>)
                  THEN Notified(schedPc) ELSE schedPc
    /\ wakeAt' = IF Comparable(provider_instances, <<LastFetchedOrMin(t.id), t.id>>)
                 THEN WokenAt(schedPc, wakeAt) ELSE wakeAt
    /\ tasks' = Take(tasks, t)
    /\ UNCHANGED <<lastFetched, active_tasks, lastFailStart>>
    /\ UNCHANGED taskFrame

\* ---- ProviderQueue.stop (lines 68-72): _status is cleared and every waiter
\* of the condition is woken; the application calls it once
Stop ==
    /\ status
    /\ status' = FALSE
    /\ schedPc' = Notified(schedPc)
    /\ wakeAt' = WokenAt(schedPc, wakeAt)
    /\ UNCHANGED <<now, nextId, registry, lastFetched, pendingEvent,
                   provider_instances, active_tasks, first_entry, popped, tasks,
                   lastFailStart, removedDelivered>>
    /\ UNCHANGED <<coalesceVars, indexVars, callVars, memVars, lifeVars, startVars,
                   regVars, loopVars, provVars>>

\* the last_fetched a new database row may carry
InitialFetched == {MinTime}

NextFetch ==
    \/ Tick
    \/ \E key \in Instances : \E f \in InitialFetched : RegistryAdd(key, f)
    \/ \E key \in Instances : RegistryRemove(key)
    \/ NotifyAdd
    \/ NotifyRemove
    \/ SchedOuter
    \/ SchedInner
    \/ SchedPoolWait
    \/ SchedPeek
    \/ SchedLookup
    \/ SchedPopMissing
    \/ SchedGateWait
    \/ SchedGateTimeout
    \/ SchedPop
    \/ SchedSubmit
    \/ \E t \in BagToSet(tasks) : RunStart(t)
    \/ \E t \in BagToSet(tasks) : RunSucceed(t)
    \/ \E t \in BagToSet(tasks) : RunFail(t)
    \/ \E t \in BagToSet(tasks) : TaskFinally(t)
    \/ \E t \in BagToSet(tasks) : TaskReinsert(t)

\* the scheduler, the coalescer and the index registry after startup
Init ==
    FetchStart /\ CoalesceStart /\ CallStart /\ MemoryStart /\ LifeStart
      /\ LoopStart /\ ProviderStart
      /\ StartupAt(FALSE, <<>>, FALSE) /\ RegistryStart(FALSE)
      /\ IndexAt(NoFiles)

InitIndex ==
    FetchStart /\ CoalesceStart /\ CallStart /\ MemoryStart /\ LifeStart
      /\ LoopStart /\ ProviderStart
      /\ StartupAt(FALSE, <<>>, FALSE) /\ RegistryStart(FALSE)
      /\ \E place \in [Docs -> Shards \cup {0}] : IndexAt(place)

\* the shard the threads call holds any of the documents
InitShard ==
    FetchStart /\ CoalesceStart /\ CallStart /\ MemoryStart /\ LifeStart
      /\ LoopStart /\ ProviderStart
      /\ StartupAt(FALSE, <<>>, FALSE) /\ RegistryStart(FALSE)
      /\ \E place \in [Docs -> {0, TheShard}] : IndexAt(place)

\* any index directory for the instance that is added
InitStartup ==
    FetchStart /\ CoalesceStart /\ CallStart /\ MemoryStart /\ LifeStart
      /\ LoopStart /\ ProviderStart
      /\ IndexAt(NoFiles)
      /\ \E exists \in BOOLEAN, found \in BOOLEAN, dir \in Directories :
            /\ ~exists => (dir = <<>> /\ ~found)
            /\ StartupAt(exists, dir, found)
      /\ RegistryStart(FALSE)

\* the ProviderInstanceRegistry of src/src (no lock) or of src/retriever (a
\* Lock)
InitObservers ==
    FetchStart /\ CoalesceStart /\ CallStart /\ MemoryStart /\ LifeStart
      /\ LoopStart /\ ProviderStart
      /\ IndexAt(NoFiles)
      /\ StartupAt(FALSE, <<>>, FALSE)
      /\ \E locked \in BOOLEAN : RegistryStart(locked)

SpecFetch == Init /\ [][NextFetch]_vars

\* ------------------------------------------------------ properties of SpecFetch
\* executions of Provider.run of one instance that are under way
RunsOf(id) ==
    BagCardinality([t \in {u \in BagToSet(tasks) : u.id = id /\ u.phase = "running"}
                       |-> CopiesIn(t, tasks)])

\* C3: for one instance, two executions of Provider.run never overlap in
\* time, whatever the interleaving of the scheduler loop, the task
\* completions and the Add/Remove notifications.
C3_NoOverlappingRuns == \A id \in Instances : RunsOf(id) <= 1

Distance(a, b) == IF a >= b THEN a - b ELSE b - a

\* C4: two successful executions of Provider.run of one instance start at
\* least FETCHING_TIME apart: a run that succeeds started at least
\* FETCHING_TIME from the start that the last successful run wrote to
\* last_fetched.
C4_FetchCadence ==
    [][\A t \in BagToSet(tasks) : RunSucceed(t) =>
          (lastFetched[t.id] > MinTime =>
              Distance(t.start, lastFetched[t.id]) >= FETCHING_TIME)]_vars

\* C5: after a failed Provider.run the instance is run again no earlier than
\* FETCHING_TIME after the start of the failed run.
C5_RetryAfterFetchingTime ==
    [][\A t \in BagToSet(tasks) : RunStart(t) =>
          (lastFailStart[t.id] = NoTime
           \/ now - lastFailStart[t.id] >= FETCHING_TIME)]_vars

\* C6: once REMOVE of an instance has been delivered to the scheduler, the
\* queue never again holds an entry of that instance.
C6_RemovedNeverRequeued ==
    \A i \in 1..Len(provider_instances) :
        provider_instances[i][2] \notin removedDelivered

\* C7: the entry removed by a dispatch belongs to the instance that is
\* submitted and is the earliest entry queued at that moment.
C7_DispatchesPeekedEntry ==
    schedPc = "submit" =>
        /\ popped[2] = first_entry[2]
        /\ \A i \in 1..Len(provider_instances) :
               EntryLeq(popped, provider_instances[i])

\* ----------------------------------------------------- properties of SpecCoalesce
SpecCoalesce == Init /\ [][NextCoalesce]_vars

\* Update is DELETE followed by INSERT: no INSERT of an id that the
\* operations so far leave inserted
RECURSIVE FollowsProtocol(_, _)
FollowsProtocol(ops, present) ==
    IF ops = <<>> THEN TRUE
    ELSE IF Head(ops).type = "INSERT"
         THEN ~present /\ FollowsProtocol(Tail(ops), TRUE)
         ELSE FollowsProtocol(Tail(ops), FALSE)

\* under the update rule (no INSERT meets an id that is still inserted) the
\* coalesced output and the original sequence leave the same vectors
CoalescerLawUnderUpdateRule ==
    FollowsProtocol(operations, FALSE) =>
        ApplyCoalesced(EmptyBag, operations) = ApplyInOrder(EmptyBag, operations)

\* C10: for every sequence of operations on one document id the
\* coalesced output and the original sequence leave the id present alike and
\* with the same content.
C10_CoalescerLaw ==
    BagToSet(ApplyCoalesced(EmptyBag, operations))
        = BagToSet(ApplyInOrder(EmptyBag, operations))

\* a shard that holds the document already, and one that does not
ShardStates == {EmptyBag, SetToBag({<<TheDoc, 1>>})}

\* C36: for every sequence of operations on one document id and every
\* initial shard (id absent or present), the coalesced output leaves the id
\* present exactly when the original sequence applied in order does; and when
\* the sequence holds a DELETE, no INSERT of the id is applied without the
\* remove before it.
C36_SamePresenceFromAnyShard ==
    \A vecs \in ShardStates :
        /\ IdsOf(ApplyCoalesced(vecs, operations)) = IdsOf(ApplyInOrder(vecs, operations))
        /\ ( /\ \E i \in 1..Len(operations) : operations[i].type = "DELETE"
             /\ InsertOperations(Reduce(operations, <<>>)) # <<>> )
           => TheDoc \in DeleteOperations(Reduce(operations, <<>>))

\* ------------------------------------------------------ properties of SpecIndex
SpecIndex == InitIndex /\ [][NextIndex]_vars

SpecShard == InitShard /\ [][NextShard]_vars

\* the threads inside the body of insert, remove or cluster of shard s
Inside(s) ==
    {j \in Jobs : jobs[j].pc \in {"in_remove", "in_insert"} /\ ShardOf(j) = s}
      \cup (IF clustering.pc = "in_cluster" /\ clustering.shard = s
            THEN {ClusterThread} ELSE {})
      \cup {CallerThread(t) : t \in {u \in Threads :
                s = TheShard /\ callers[u].pc = "inside"
                /\ callers[u].op \in {"insert", "remove", "cluster"}}}

\* the threads that have called insert, remove or cluster of shard s and have
\* not entered the body
Calling(s) ==
    {j \in Jobs : jobs[j].pc \in {"remove", "insert"} /\ ShardOf(j) = s}
      \cup (IF clustering.pc = "cluster" /\ clustering.shard = s
            THEN {ClusterThread} ELSE {})
      \cup {CallerThread(t) : t \in {u \in Threads :
                s = TheShard /\ callers[u].pc = "called"
                /\ callers[u].op \in {"insert", "remove", "cluster"}}}

\* C1: on every shard at most one thread is inside the body of insert, remove
\* or cluster, and that thread holds the lock of the shard for the whole body.
C1_AtMostOneWriter ==
    \A s \in Shards :
        /\ Cardinality(Inside(s)) <= 1
        /\ \A t \in Inside(s) : shard[s].lock = t

\* a thread is inside a body while another one has called a body of that shard
C1_Witness == \E s \in Shards : Inside(s) # {} /\ Calling(s) # {}

\* C2: a search never reads a shard between the remove and the insert of a
\* writer cycle that is running on it.
C2_SearchNeverPartial == client.saw # "partial"

\* no writer job is running
NoJobRuns == \A j \in Jobs : jobs[j] = NoJob

\* C8: after the writer cycles, no document id is in the id sets of two shards
\* of the instance.
C8_ShardIdsDisjoint ==
    (registered /\ NoJobRuns) =>
        \A s1, s2 \in Shards : s1 # s2 => shard[s1].ids \cap shard[s2].ids = {}

\* C9: once every pushed mutation is drained and processed, the id sets of the
\* shards of the instance together are the set of live document ids.
C9_ShardsHoldLiveIds ==
    (registered /\ NoJobRuns /\ indexing_queue = <<>>) =>
        UNION {shard[s].ids : s \in Shards} = live

\* ----------------------------------------------------- properties of SpecMemory
SpecMemory == Init /\ [][NextMemory]_vars

\* C11: after any interleaving of use_* and free_* calls each of the three
\* available counters (general, indexing, clustering) lies in [0, its max].
C11_CountersInRange ==
    /\ memory_available \in 0..MAX_MEMORY
    /\ indexing_memory_available \in 0..MAX_INDEXING_MEMORY
    /\ clustering_memory_available \in 0..MAX_CLUSTERING_MEMORY

\* what a use_* call of amount n that found the counters <<g, i, c>> has to
\* leave: raised and the counters untouched when n exceeds one of the
\* counters it looks at, else those counters lowered by n
UseOutcome(op, n, g, i, c) ==
    IF op = "use_memory"
    THEN IF n > g THEN <<TRUE, <<g, i, c>>>> ELSE <<FALSE, <<g - n, i, c>>>>
    ELSE IF op = "use_indexing_memory"
    THEN IF n > i \/ n > g THEN <<TRUE, <<g, i, c>>>>
         ELSE <<FALSE, <<g - n, i - n, c>>>>
    ELSE IF n > c \/ n > g THEN <<TRUE, <<g, i, c>>>>
         ELSE <<FALSE, <<g - n, i, c - n>>>>

\* C12: use_indexing_memory(n) and use_clustering_memory(n) fail exactly when
\* n exceeds the specialized or the general available counter, use_memory(n)
\* exactly when n exceeds the general counter; a failed call leaves the three
\* counters unchanged, a successful specialized call lowers the specialized
\* and the general counter by n each.
C12_UseFailsExactlyWhenShort ==
    memLast.op \in {"use_memory", "use_indexing_memory", "use_clustering_memory"} =>
        <<memLast.raised, Counters>>
            = UseOutcome(memLast.op, memLast.amount,
                         memLast.pre[1], memLast.pre[2], memLast.pre[3])

\* use_indexing_memory has failed for want of general memory alone
C12_Witness ==
    /\ memLast.op = "use_indexing_memory"
    /\ memLast.raised
    /\ memLast.amount <= memLast.pre[2]
    /\ memLast.amount > memLast.pre[1]
    /\ Counters = memLast.pre

SpecLifecycle == InitShard /\ [][NextLifecycle]_vars

\* C13: releasing a Context a second time (a second Context.free, or a second
\* release(context) on the same shard) is a no-op: the ContextManager's live set,
\* the shard's token set and the shard's load status stay as they are, also
\* when other tokens have been generated and attached to the shard since the
\* first release.  Stated for the second release on a shard that is resident
\* only while it has tokens.
C13_SecondReleaseIsNoOp ==
    ( /\ lifeLast.op \in {"release", "free"}
      /\ lifeLast.again
      /\ (lifeLast.pre.context # {} \/ ~lifeLast.pre.index.loaded) )
    => /\ active_context_ids = lifeLast.active
       /\ shard[TheShard].context = lifeLast.pre.context
       /\ shard[TheShard].index.loaded = lifeLast.pre.index.loaded

\* C14: after any sequence of load and release calls, with or without a
\* token, a shard whose token set is empty holds no resident index.
C14_NoTokensNoIndex ==
    shard[TheShard].context = {} => ~shard[TheShard].index.loaded

\* C15: search, insert, remove and cluster on a shard that is not loaded
\* (never loaded, or released by its last holder) fail with NotLoaded and
\* leave the shard's id-set, size and clustered flag unchanged.
C15_NotLoadedRaises ==
    ( /\ lifeLast.op \in {"search", "insert", "remove", "cluster"}
      /\ ~lifeLast.pre.index.loaded )
    => /\ lifeLast.raised
       /\ shard[TheShard].ids = lifeLast.pre.ids
       /\ SizeOf(shard[TheShard]) = SizeOf(lifeLast.pre)
       /\ shard[TheShard].is_clustered = lifeLast.pre.is_clustered

\* insert has raised on a shard that holds a document and whose last holder
\* has released it
C15_Witness ==
    /\ lifeLast.op = "insert"
    /\ lifeLast.raised
    /\ ~lifeLast.pre.index.loaded
    /\ lifeLast.pre.ids # {}
    /\ Len(contexts) > 0 /\ contexts[1].dropped
    /\ shard[TheShard] = lifeLast.pre

\* C16: for a loaded shard, save (to the shard's own path or to a given
\* path) followed by releasing every token and a new load yields a shard
\* with the same id-set and the same clustered flag as at the time of the
\* save.
C16_SaveLoadRoundTrip ==
    ( /\ lifeLast.op = "load"
      /\ ~lifeLast.pre.index.loaded
      /\ saved.taken )
    => /\ shard[TheShard].ids = saved.ids
       /\ shard[TheShard].is_clustered = saved.is_clustered

\* C39: the size that save records in the sidecar is the size of the shard
\* at the moment of the save, after the remove and the insert that came
\* before it, so that a later load reads the true size of the saved shard.
C39_SidecarHoldsActualSize ==
    ( /\ lifeLast.op = "save"
      /\ ~lifeLast.raised )
    => disk[TheShard].size = ComputedSize(shard[TheShard].index)

\* the round trip of a save that was given a path
SaveToGivenPathRoundTrip == saved.raised \/ C16_SaveLoadRoundTrip

\* a Context is generated with the id of one that has been released
IdReused ==
    \E k, l \in 1..Len(contexts) :
        k < l /\ contexts[k]._id = contexts[l]._id

\* the second release is a no-op as long as no id has been handed out twice
SecondReleaseWithoutReuse == IdReused \/ C13_SecondReleaseIsNoOp

\* ------------------------------------------- further properties of SpecIndex
\* the ClusteringQueue has the shard in _full_indices or is working on it
AwaitsClustering(s, full, cl) ==
    s \in full \/ (cl.shard = s /\ cl.pc \notin {"idle", "crashed"})

C19_NoSaveAfterRemoval ==
    /\ \A j \in Jobs : jobs[j].pc = "save" => registered
    /\ clustering.pc = "save" => registered

\* C23: when save raises while the IndexWriter processes one shard of its
\* work list, the writer releases the token it took for that shard and goes
\* on with the next shard of the list.
C23_WriterReleasesAndContinues ==
    [][\A j \in Jobs :
         JobSave(j) =>
            /\ jobs[j].context \notin shard'[ShardOf(j)].context
            /\ Len(jobs[j].work) > 1 => jobs'[j].pc = "load"]_vars

\* C24: no failure while handling one shard ends the ClusteringQueue loop:
\* the thread is there for later Full events.
C24_LoopsSurviveFailures == clustering.pc # "crashed"

\* C31: MAX_INDEX_SIZE is a cap of every shard: a writer cycle inserts at most
\* capacity(max_index_size) documents and each of them raises the size of a
\* flat or clustered shard by at most max_doc_size, so the insert of a cycle
\* on a shard whose size is within max_index_size leaves it within
\* max_index_size.
C31_CycleKeepsShardWithinCap ==
    [][\A j \in Jobs :
         ( /\ JobInsertEnd(j)
           /\ SizeOf(shard[ShardOf(j)]) <= MAX_INDEX_SIZE )
         => ComputedSize(shard'[ShardOf(j)].index) <= MAX_INDEX_SIZE]_vars

\* -------------------------------------------------- properties of SpecRegistry
SpecRegistry == InitIndex /\ [][NextRegistry]_vars

\* C18: once is_index_full(shard.size) is true for a shard and the shard is
\* outside the fillable table (left out at load or removed by
\* mark_index_as_full), no later operation puts the shard into the fillable
\* table again while its instance stays registered.  Checked for every shard
\* outside the table, full or not.
C18_FullStaysOutOfFillable ==
    [][\A s \in Shards :
         (registered /\ registered' /\ s \notin fillable_registry.shards)
             => s \notin fillable_registry'.shards]_vars

\* a shard that was fillable at load has been filled by the writer and taken
\* out of the table by mark_index_as_full
C18_Witness ==
    \E s \in Shards :
        /\ registered
        /\ ~is_index_full(disk[s].size)
        /\ is_index_full(SizeOf(shard[s]))
        /\ s \notin fillable_registry.shards
        /\ s \in full_indices

\* --------------------------------------------------- properties of SpecStartup
SpecStartup == InitStartup /\ [][NextStartup]_vars

\* the directory of the added instance holds one shard file whose sidecar size
\* is below the fullness threshold
OneFillableFile ==
    /\ startup.exists
    /\ Len(startup.dir) = 1
    /\ ~is_index_full(startup.dir[1])

\* C20: when an instance is added whose index directory holds one shard file
\* with a sidecar size below the fullness threshold, the handling of the Add
\* event does not block, and once it has completed the registry table and the
\* fillable table of the instance each hold exactly that shard and no Full
\* event has been published.
C20_AddLoadsOneShard ==
    OneFillableFile =>
        /\ startup.pc # "blocked"
        /\ startup.pc = "done" =>
              /\ startup._registry = Listed(NoList, 1)
              /\ startup._fillable_registry = Listed(NoList, 1)
              /\ startup.fulls = 0

\* C38: get, get_fillable and get_index_types raise only for an instance that
\* is not registered: once the ADD of an instance of the InstanceRegistry has
\* been handled, a lookup of it returns, also when its index directory holds
\* no shard file.
C38_LookupsOfHandledInstanceReturn ==
    [][( /\ GetReturn
         /\ startup.instance
         /\ startup.pc = "done" )
       => startup'.result = "returned"]_vars

\* ------------------------------------------- further properties of SpecFetch
\* C21: when ADD of an instance with last_fetched = min is delivered while the
\* scheduler is in, or about to enter, its FETCHING_TIME gate wait, the wait
\* is broken: the scheduler goes on to look at the queue again instead of
\* sleeping out the remaining gate time.
C21_AddBreaksGateWait ==
    [][( /\ NotifyAdd
         /\ pendingEvent[2] \in registry
         /\ lastFetched[pendingEvent[2]] = MinTime
         /\ schedPc \in {"gate", "gate_wait"} )
       => schedPc' = "inner"]_vars

\* C32: Provider.run writes last_fetched only when it succeeds, and then the
\* initiation time taken before the fetch; a run that fails leaves
\* last_fetched as it was; so no run ever moves the last_fetched of its
\* instance back.
C32_LastFetchedNeverDecreases ==
    [][\A t \in BagToSet(tasks) :
         /\ (RunStart(t) \/ RunFail(t)) => lastFetched' = lastFetched
         /\ (RunSucceed(t) /\ lastFetched[t.id] # NoTime) =>
                /\ lastFetched'[t.id] = t.start
                /\ lastFetched'[t.id] >= lastFetched[t.id]]_vars

\* the queue entries of an instance, its tasks in the executor and the
\* dispatch of it that is between the pop and the submit
Represented(id) ==
    Cardinality({i \in 1..Len(provider_instances) : provider_instances[i][2] = id})
      + BagCardinality([t \in {u \in BagToSet(tasks) : u.id = id} |-> CopiesIn(t, tasks)])
      + (IF schedPc = "submit" /\ first_entry[2] = id THEN 1 ELSE 0)

\* C33: every instance that is in the registry and whose ADD has been
\* delivered to the scheduler is represented exactly once: by one queue entry
\* or by one task in flight, never by both, by two or by none.
C33_RepresentedExactlyOnce ==
    \A id \in registry :
        pendingEvent # <<"ADD", id>> => Represented(id) = 1

\* ---- SpecFetchLive: the scheduler thread, the pool threads and the
\* deliverers of registry events keep running, and time passes
SchedStep ==
    \/ SchedOuter \/ SchedInner \/ SchedPoolWait \/ SchedPeek \/ SchedLookup
    \/ SchedPopMissing \/ SchedGateWait \/ SchedGateTimeout \/ SchedPop
    \/ SchedSubmit

TaskStep ==
    \E t \in BagToSet(tasks) :
        RunStart(t) \/ RunSucceed(t) \/ RunFail(t) \/ TaskFinally(t) \/ TaskReinsert(t)

FairFetch ==
    /\ WF_vars(SchedStep)
    /\ WF_vars(TaskStep)
    /\ WF_vars(NotifyAdd \/ NotifyRemove)
    /\ WF_vars(Tick)

SpecFetchLive == Init /\ [][NextFetch]_vars /\ FairFetch

\* the first queue entry is of a registered instance and its FETCHING_TIME
\* gate has passed
ReadyEntry ==
    /\ provider_instances # <<>>
    /\ provider_instances[1][2] \in registry
    /\ now - provider_instances[1][1] >= FETCHING_TIME

\* C34: under fair scheduling, whenever the queue holds an entry whose gate
\* has passed and fewer tasks are in flight than the pool has threads, the
\* scheduler gets to a dispatch (or the queue empties, or the scheduler is in
\* its timed gate wait): no notification issued between its unlocked test
\* and its wait leaves it blocked on the condition for ever.
C34_ReadyEntryIsDispatched ==
    (ReadyEntry /\ active_tasks < FETCHING_THREADS)
      ~> ( \/ schedPc \in {"submit", "gate_wait", "crashed"}
           \/ provider_instances = <<>> )

\* ---------------------------------------------------- properties of SpecTables
SpecTables == InitStartup /\ [][NextTables]_vars

\* C22: after InstanceRegistry.remove(A) has returned for a registered
\* instance A, A has no entry in the registry table or the fillable table of
\* the IndexRegistry, A is not in the IndexingQueue's set of active instances
\* and the ClusteringQueue holds no pending position of A.
C22_RemoveClearsEverything ==
    startup.removed =>
        /\ ~startup._registry.present
        /\ ~startup._fillable_registry.present
        /\ startup._provider_instances = {}
        /\ startup._full_indices = {}

\* C28: request_index_creation for a registered instance appends the new
\* shard to the registry table and to the fillable table and publishes
\* exactly one ADD; for an unregistered instance it fails and changes
\* neither table.
C28_CreateAppendsToBothTables ==
    [][RequestIndexCreation =>
         IF startup.instance
         THEN /\ startup'._registry = Listed(startup._registry, NewShard)
              /\ startup'._fillable_registry = Listed(startup._fillable_registry, NewShard)
              /\ startup'.adds = startup.adds + 1
         ELSE /\ startup'.result = "raised"
              /\ startup'._registry = startup._registry
              /\ startup'._fillable_registry = startup._fillable_registry
              /\ startup'.adds = startup.adds]_vars

\* C29: mark_index_as_full for a shard that is not in the fillable list of
\* its instance (unknown path, instance absent from the fillable table, or
\* shard already marked full) fails, publishes no FULL and leaves both
\* tables unchanged.
C29_MarkFullFailsOutsideFillable ==
    [][\A path \in ShardPaths :
         (MarkFull(path) /\ ~Holds(startup._fillable_registry, path))
            => /\ startup'.result = "raised"
               /\ startup'.fulls = startup.fulls
               /\ startup'._full_indices = startup._full_indices
               /\ startup'._registry = startup._registry
               /\ startup'._fillable_registry = startup._fillable_registry]_vars

\* ------------------------------------------------- properties of SpecObservers
SpecObservers == InitObservers /\ [][NextObservers]_vars

RECURSIVE IsPrefix(_, _)
IsPrefix(a, b) ==
    \/ a = <<>>
    \/ /\ b # <<>>
       /\ Head(a) = Head(b)
       /\ IsPrefix(Tail(a), Tail(b))

\* C25: every observer receives the events of the registry in the order in
\* which the state changes occurred, also when add and remove are called
\* from different threads: what an observer has received is the beginning of
\* the sequence of changes, so no observer receives the Remove before the Add
\* it undoes and no two observers see two events in opposite orders.
C25_EventsInOrderOfChanges ==
    \A o \in Observers :
        IsPrefix(instance_registry.received[o], instance_registry.changes)

\* C26: the registry does not call its observers while it holds its own
\* lock.
C26_NotifiesOutsideLock ==
    \A t \in Callers :
        instance_registry.thread[t].pc = "notify" => instance_registry._lock # t

\* C27: of concurrent add calls on an absent key one returns True and one ADD
\* is published, and an add on a present key changes nothing: every time the
\* key goes from absent to present there is at most one ADD and at most one
\* call that returns True.
C27_OneAddPerAbsentKey ==
    /\ instance_registry.events <= instance_registry.added
    /\ instance_registry.trues <= instance_registry.added

\* ------------------------------------------------ properties of SpecWriterLoop
InitWriterLoop ==
    FetchStart /\ CoalesceStart /\ CallStart /\ MemoryStart /\ LifeStart
      /\ LoopStart /\ ProviderStart
      /\ IndexAt(NoFiles)
      /\ StartupAt(FALSE, <<>>, FALSE) /\ RegistryStart(FALSE)

SpecWriterLoop == InitWriterLoop /\ [][NextWriterLoop]_vars

\* C35: two processing jobs of one instance never run at the same time: the
\* job of a batch drained in a later wake starts only after the job of every
\* batch drained earlier has finished.
C35_OneJobAtATime ==
    \A i \in Executing(indexing_loop.work) :
        \A k \in 1..(i - 1) : indexing_loop.work[k].at = "finished"

\* -------------------------------------------------- properties of SpecProvider
InitProvider ==
    FetchStart /\ CoalesceStart /\ CallStart /\ MemoryStart /\ LifeStart
      /\ LoopStart /\ ProviderStart
      /\ IndexAt(NoFiles)
      /\ StartupAt(FALSE, <<>>, FALSE) /\ RegistryStart(FALSE)

SpecProvider == InitProvider /\ [][NextProvider]_vars

\* C40: over all its run() calls a provider calls setup() at most once, and
\* no run() gets to reading last_fetched and fetching unless setup() has
\* completed successfully, also after a run() whose setup() raised.
C40_SetupOnceAndBeforeFetch ==
    /\ provider.setups <= 1
    /\ ~provider.unready


\* -------------------------------------------------- properties of SpecStop
\* the scheduler, its tasks and a caller of stop, while instances are added
\* and none is removed
NextStop ==
    \/ Stop
    \/ Tick
    \/ \E key \in Instances : \E f \in InitialFetched : RegistryAdd(key, f)
    \/ NotifyAdd
    \/ SchedOuter
    \/ SchedInner
    \/ SchedPoolWait
    \/ SchedPeek
    \/ SchedLookup
    \/ SchedGateWait
    \/ SchedGateTimeout
    \/ SchedPop
    \/ SchedSubmit
    \/ \E t \in BagToSet(tasks) : RunStart(t)
    \/ \E t \in BagToSet(tasks) : RunSucceed(t)
    \/ \E t \in BagToSet(tasks) : RunFail(t)
    \/ \E t \in BagToSet(tasks) : TaskFinally(t)
    \/ \E t \in BagToSet(tasks) : TaskReinsert(t)

SpecStop == Init /\ [][NextStop]_vars

\* C37: after ProviderQueue.stop() has been called the scheduler dispatches
\* no further fetch, also when the list is not empty or the loop is waiting
\* for a free pool slot or for the FETCHING_TIME gate.
C37_NoDispatchAfterStop ==
    [][SchedSubmit => status]_vars

====
